---------------------------- MODULE Spec2Model ----------------------------
(***************************************************************************)
(* A/B-testing front-end fix scripts: the standalone fix (part_000), the   *)
(* permanent + React fix (part_001) and the comprehensive fix              *)
(* (ab-testing-frontend-fix.js), modelled as state machines over the       *)
(* overlays they inject, the requests they have in flight and the notices  *)
(* they show.  Every click handler and every promise continuation runs to  *)
(* completion on the UI thread, so each is one action.                     *)
(* The continuations of the requests (ContentPlatform's included), the     *)
(* results renderers and the form extractors are also applied on their own *)
(* to every response, payload and document of a bounded set, and so are    *)
(* the click listeners' classification of an element, the rendering of a   *)
(* variation's content and ContentPlatform's data attributes.  The copy    *)
(* buttons and ContentPlatform's two request buttons are state machines of *)
(* their own.                                                              *)
(***************************************************************************)
EXTENDS Integers, Sequences, FiniteSets, TLC

(* ------------------------------ bounds -------------------------------- *)
\* clicks the user makes in one behaviour (each click starts at most two requests)
MaxClicks == 3

(* ------------------------------ state --------------------------------- *)
\* part_000 (standalone fix)
VARIABLES
    p0_dom,       \* overlays injected into document.body, in document order
    p0_inflight,  \* fetches whose promise has not settled yet
    p0_clicks,    \* View Results / View Details clicks made so far
    p0_gen,       \* showABTestResults calls so far (start order of the requests)
    p0_last       \* the handler that ran last and what it ended with

varsP0 == <<p0_dom, p0_inflight, p0_clicks, p0_gen, p0_last>>

\* findTestIdFromContext of the comprehensive fix, applied to one element
VARIABLES
    fn_chain,     \* the clicked element and its ancestors below document.body
    fn_result     \* what findTestIdFromContext returned for it

varsFn == <<fn_chain, fn_result>>

\* part_001 (permanent fix and React fix, both loaded)
VARIABLES
    p1_dom,       \* overlays and notices injected into document.body, in document order
    p1_inflight,  \* fetches whose promise has not settled yet
    p1_timers,    \* setTimeout callbacks not run yet
    p1_seq,       \* fetches started so far
    p1_listeners, \* click listeners interceptReactEvents has put on document
    p1_fixed,     \* elements with dataset.abFixed set
    p1_events,    \* clicks the user has made and re-renders React has done
    p1_listed,    \* identifiers GET tests has answered with so far
    p1_last       \* the handler that ran last and what it ended with

varsP1 == <<p1_dom, p1_inflight, p1_timers, p1_seq, p1_listeners, p1_fixed,
            p1_events, p1_listed, p1_last>>

\* comprehensive fix (ab-testing-frontend-fix.js): its handlers
VARIABLES
    cf_form,      \* the create form's controls and their current values
    cf_dom,       \* overlays injected into document.body, in document order
    cf_inflight,  \* fetches whose promise has not settled yet
    cf_seq,       \* fetches started so far
    cf_clicks,    \* clicks handled so far
    cf_refreshes, \* clicks refreshActiveTests has made on the Active Tests tab
    cf_last       \* the handler that ran last, its notice and its request body

varsCF == <<cf_form, cf_dom, cf_inflight, cf_seq, cf_clicks, cf_refreshes, cf_last>>

\* comprehensive fix: the page it is loaded into
VARIABLES
    pg_ready,     \* DOMContentLoaded has been dispatched
    pg_timers,    \* setTimeout callbacks not run yet: "init", "retry", "reapply"
    pg_bound,     \* kinds of control that carry the script's click listener
    pg_observing, \* the MutationObserver on document.body is installed
    pg_hasCreate, \* a Create A/B Test button is in the document
    pg_threw,     \* a callback of the script has ended in an uncaught exception
    pg_last       \* the event dispatched last and what it led to

varsPG == <<pg_ready, pg_timers, pg_bound, pg_observing, pg_hasCreate, pg_threw, pg_last>>

\* one response handed to the continuation of one request
VARIABLE rs_call    \* the handler, the response and what the user is shown
varsRs == <<rs_call>>

\* one payload handed to one results renderer
VARIABLE rn_call    \* the renderer, the payload and the blocks rendered
varsRn == <<rn_call>>

\* one form handed to one form extractor
VARIABLE ex_call    \* the extractor, the form and the record extracted
varsEx == <<ex_call>>

\* transient notices: showAlert (part_001) and showNotification (ContentPlatform)
VARIABLES
    nt_dom,       \* the notices in document.body, in document order
    nt_timers,    \* the 5 second timers not run yet, in the order they were set
    nt_seq,       \* notices shown so far
    nt_last       \* the step taken last and the notice it removed

varsNt == <<nt_dom, nt_timers, nt_seq, nt_last>>

\* one copy button of a results modal and the copy function its onclick calls
VARIABLES
    cy_fn,        \* the copy function the button calls
    cy_api,       \* whether navigator.clipboard exists on this page
    cy_label,     \* button.textContent
    cy_pending,   \* writeText promises not settled yet
    cy_timers,    \* labels the 2 second timers not run yet will set, in order
    cy_clicks,    \* clicks made on the button so far
    cy_last       \* the step taken last and how it ended

varsCy == <<cy_fn, cy_api, cy_label, cy_pending, cy_timers, cy_clicks, cy_last>>

\* one clicked element handed to the click listener of one script
VARIABLE cl_call    \* the listener, the element and the intent it triggers
varsCl == <<cl_call>>

\* the content of one variation handed to one results renderer
VARIABLE cn_call    \* the renderer, the content and the block it becomes
varsCn == <<cn_call>>

\* ContentPlatform: the Train Brand Voice and Generate Content buttons
VARIABLES
    gp_page,      \* which of the optional page elements are in the document
    gp_disabled,  \* the buttons whose disabled property is set
    gp_inflight,  \* requests not settled yet, per button
    gp_clicks,    \* clicks made on the two buttons so far
    gp_last       \* the method that ran last, its notice, whether it threw

varsGp == <<gp_page, gp_disabled, gp_inflight, gp_clicks, gp_last>>

\* one recommendation rendered by displayResults and its button clicked
VARIABLE rt_call    \* the recommendation and the base_content the click sends
varsRt == <<rt_call>>

vars == <<varsP0, varsFn, varsP1, varsCF, varsPG, varsRs, varsRn, varsEx, varsNt, varsCy, varsCl, varsCn, varsGp, varsRt>>

\* what a step of one script leaves alone: the state of the other scripts
FrameP0 == UNCHANGED <<varsFn, varsP1, varsCF, varsPG, varsRs, varsRn, varsEx, varsNt, varsCy, varsCl, varsCn, varsGp, varsRt>>
FrameFn == UNCHANGED <<varsP0, varsP1, varsCF, varsPG, varsRs, varsRn, varsEx, varsNt, varsCy, varsCl, varsCn, varsGp, varsRt>>
FrameP1 == UNCHANGED <<varsP0, varsFn, varsCF, varsPG, varsRs, varsRn, varsEx, varsNt, varsCy, varsCl, varsCn, varsGp, varsRt>>
FrameCF == UNCHANGED <<varsP0, varsFn, varsP1, varsPG, varsRs, varsRn, varsEx, varsNt, varsCy, varsCl, varsCn, varsGp, varsRt>>
FramePG == UNCHANGED <<varsP0, varsFn, varsP1, varsRs, varsRn, varsEx, varsNt, varsCy, varsCl, varsCn, varsGp, varsRt>>
FrameRs == UNCHANGED <<varsP0, varsFn, varsP1, varsCF, varsPG, varsRn, varsEx, varsNt, varsCy, varsCl, varsCn, varsGp, varsRt>>
FrameRn == UNCHANGED <<varsP0, varsFn, varsP1, varsCF, varsPG, varsRs, varsEx, varsNt, varsCy, varsCl, varsCn, varsGp, varsRt>>
FrameEx == UNCHANGED <<varsP0, varsFn, varsP1, varsCF, varsPG, varsRs, varsRn, varsNt, varsCy, varsCl, varsCn, varsGp, varsRt>>
FrameNt == UNCHANGED <<varsP0, varsFn, varsP1, varsCF, varsPG, varsRs, varsRn, varsEx, varsCy, varsCl, varsCn, varsGp, varsRt>>
FrameCy == UNCHANGED <<varsP0, varsFn, varsP1, varsCF, varsPG, varsRs, varsRn, varsEx, varsNt, varsCl, varsCn, varsGp, varsRt>>
FrameCl == UNCHANGED <<varsP0, varsFn, varsP1, varsCF, varsPG, varsRs, varsRn, varsEx, varsNt, varsCy, varsCn, varsGp, varsRt>>
FrameCn == UNCHANGED <<varsP0, varsFn, varsP1, varsCF, varsPG, varsRs, varsRn, varsEx, varsNt, varsCy, varsCl, varsGp, varsRt>>
FrameGp == UNCHANGED <<varsP0, varsFn, varsP1, varsCF, varsPG, varsRs, varsRn, varsEx, varsNt, varsCy, varsCl, varsCn, varsRt>>
FrameRt == UNCHANGED <<varsP0, varsFn, varsP1, varsCF, varsPG, varsRs, varsRn, varsEx, varsNt, varsCy, varsCl, varsCn, varsGp>>

(* ------------------------------ bounds -------------------------------- *)
\* elements on an ancestor chain (the clicked element included)
MaxDepth == 3
\* clicks the user makes on the page of part_001, plus React re-renders that
\* add A/B testing content under #root, in one behaviour
MaxEventsP1 == 2
\* clicks the handlers of the comprehensive fix take in one behaviour
MaxClicksCF == 2

(* --------------------------- shared values ---------------------------- *)
\* null / undefined / "" : every falsy identifier value
NoId == "none"
\* identifiers the backend hands out
TestIds == {"t1", "t2"}
\* GET tests: the `tests` arrays the API may answer with, in the API's order
TestLists == {<< >>, <<"t1">>, <<"t1", "t2">>, <<"t2", "t1">>}
\* GET tests: a JSON body, or a rejected fetch / body that is not JSON
TestsResponses ==
    [kind : {"json"}, success : BOOLEAN, tests : TestLists]
        \cup {[kind |-> "reject", success |-> FALSE, tests |-> << >>]}
\* GET analyze-results/{id}: success with data, success without data,
\* success:false, or a rejected fetch / body that is not JSON
AnalyzeResponses == {"ok", "nodata", "fail", "reject"}

\* remove the first element of a sequence that satisfies the id (what
\* document.getElementById(id) followed by .remove() does to the overlays
\* in document order)
RemoveFirstId(dom, id) ==
    IF \E i \in 1..Len(dom) : dom[i].id = id
    THEN LET k == CHOOSE i \in 1..Len(dom) :
                      /\ dom[i].id = id
                      /\ \A j \in 1..(i-1) : dom[j].id # id
         IN  [i \in 1..(Len(dom)-1) |-> IF i < k THEN dom[i] ELSE dom[i+1]]
    ELSE dom
\* remove every element with the id (querySelectorAll(...).forEach(remove))
RemoveAllId(dom, ids) == SelectSeq(dom, LAMBDA o : o.id \notin ids)
CountId(dom, ids) == Len(SelectSeq(dom, LAMBDA o : o.id \in ids))

(* ======================= part_000: standalone fix ===================== *)

\* The clicked element as lines 20-27 see it: whether closest('[data-test-id],
\* .test-item, .test-card') finds a container, the container's own
\* data-test-id and the data-test-id of its first descendant that has one.
P0_Controls ==
    [container : {TRUE}, own : TestIds \cup {NoId}, desc : TestIds \cup {NoId}]
        \cup {[container |-> FALSE, own |-> NoId, desc |-> NoId]}

\* lines 20-27
P0_resolveTestId(ctl) ==
    IF ~ctl.container THEN NoId
    ELSE IF ctl.own # NoId THEN ctl.own
    ELSE ctl.desc

\* lines 236-242: a removeExistingModals that forgets the error overlay
P0_removeExistingModals_noError(dom) ==
    RemoveFirstId(RemoveFirstId(dom, "ab-results-modal"), "ab-loading-modal")

\* lines 236-242
P0_removeExistingModals(dom) ==
    RemoveFirstId(RemoveFirstId(RemoveFirstId(dom, "ab-results-modal"),
                                "ab-loading-modal"), "ab-error-modal")

\* lines 89-109
P0_showLoadingModal(dom, n) ==
    Append(P0_removeExistingModals(dom), [id |-> "ab-loading-modal", owner |-> n])

\* lines 112-115
P0_hideLoadingModal(dom) == RemoveFirstId(dom, "ab-loading-modal")

\* lines 118-209
P0_displayResultsModal(dom, n) ==
    Append(P0_removeExistingModals(dom), [id |-> "ab-results-modal", owner |-> n])

\* lines 212-233
P0_showErrorModal(dom, n) ==
    Append(P0_removeExistingModals(dom), [id |-> "ab-error-modal", owner |-> n])

\* lines 63-86, up to the fetch: loading overlay, request in flight
P0_showABTestResults(testId, from) ==
    /\ p0_gen' = p0_gen + 1
    /\ p0_dom' = P0_showLoadingModal(p0_dom, p0_gen + 1)
    /\ p0_inflight' = (p0_inflight \ from) \cup
            {[n |-> p0_gen + 1, kind |-> "analyze", testId |-> testId]}
    /\ p0_last' = [op |-> "showLoadingModal", n |-> p0_gen + 1, testId |-> testId]

P0Init ==
    /\ p0_dom = << >>
    /\ p0_inflight = {}
    /\ p0_clicks = 0
    /\ p0_gen = 0
    /\ p0_last = [op |-> "init", n |-> 0, testId |-> NoId]

\* lines 9-43: click on an element whose text includes 'View Results'
P0_ViewResultsClick(ctl) ==
    /\ FrameP0
    /\ p0_clicks < MaxClicks
    /\ p0_clicks' = p0_clicks + 1
    /\ LET testId == P0_resolveTestId(ctl) IN
         IF testId = NoId
         THEN /\ p0_inflight' = p0_inflight \cup
                     {[n |-> 0 - (p0_clicks + 1), kind |-> "tests", testId |-> NoId]}
              /\ p0_last' = [op |-> "fetchTests", n |-> 0, testId |-> NoId]
              /\ UNCHANGED <<p0_dom, p0_gen>>
         ELSE P0_showABTestResults(testId, {})

\* lines 32-38: the continuation of GET tests (no catch on this chain)
P0_TestsDone(r, resp) ==
    /\ FrameP0
    /\ r \in p0_inflight
    /\ r.kind = "tests"
    /\ UNCHANGED p0_clicks
    /\ IF resp.kind = "json" /\ resp.success /\ Len(resp.tests) > 0
       THEN P0_showABTestResults(resp.tests[1], {r})
       ELSE /\ p0_inflight' = p0_inflight \ {r}
            /\ p0_last' = [op |-> IF resp.kind = "reject" THEN "testsRejected"
                                   ELSE IF resp.success /\ Len(resp.tests) = 0
                                   THEN "testsEmpty" ELSE "testsIgnored",
                           n |-> 0, testId |-> NoId]
            /\ UNCHANGED <<p0_dom, p0_gen>>

\* lines 71-85: the continuation of GET analyze-results/{id}
P0_AnalyzeDone(r, resp) ==
    /\ FrameP0
    /\ r \in p0_inflight
    /\ r.kind = "analyze"
    /\ p0_inflight' = p0_inflight \ {r}
    /\ UNCHANGED <<p0_clicks, p0_gen>>
    /\ IF resp = "ok"
       THEN /\ p0_dom' = P0_displayResultsModal(P0_hideLoadingModal(p0_dom), r.n)
            /\ p0_last' = [op |-> "displayResultsModal", n |-> r.n, testId |-> r.testId]
       ELSE /\ p0_dom' = P0_showErrorModal(P0_hideLoadingModal(p0_dom), r.n)
            /\ p0_last' = [op |-> "showErrorModal", n |-> r.n, testId |-> r.testId]

\* lines 133 and 197: the two close buttons of the results overlay
P0_CloseResults ==
    /\ FrameP0
    /\ CountId(p0_dom, {"ab-results-modal"}) > 0
    /\ p0_dom' = RemoveFirstId(p0_dom, "ab-results-modal")
    /\ p0_last' = [op |-> "close", n |-> 0, testId |-> NoId]
    /\ UNCHANGED <<p0_inflight, p0_clicks, p0_gen>>

\* line 224: the close button of the error overlay
P0_CloseError ==
    /\ FrameP0
    /\ CountId(p0_dom, {"ab-error-modal"}) > 0
    /\ p0_dom' = RemoveFirstId(p0_dom, "ab-error-modal")
    /\ p0_last' = [op |-> "close", n |-> 0, testId |-> NoId]
    /\ UNCHANGED <<p0_inflight, p0_clicks, p0_gen>>

\* lines 46-58: click on an element whose text includes 'View Details'.
\* 'button:contains("View Results")' is not a selector querySelector accepts:
\* with a container the call throws, without one viewResultsBtn is undefined;
\* no View Results button is ever clicked on the user's behalf.
P0_ViewDetailsClick(ctl) ==
    /\ FrameP0
    /\ p0_clicks < MaxClicks
    /\ p0_clicks' = p0_clicks + 1
    /\ p0_last' = [op |-> IF ctl.container THEN "viewDetailsThrew" ELSE "viewDetailsNoop",
                   n |-> 0, testId |-> NoId]
    /\ UNCHANGED <<p0_dom, p0_inflight, p0_gen>>

P0Next ==
    \/ \E ctl \in P0_Controls : P0_ViewResultsClick(ctl)
    \/ \E r \in p0_inflight, resp \in TestsResponses : P0_TestsDone(r, resp)
    \/ \E r \in p0_inflight, resp \in AnalyzeResponses : P0_AnalyzeDone(r, resp)
    \/ P0_CloseResults
    \/ P0_CloseError
    \/ \E ctl \in P0_Controls : P0_ViewDetailsClick(ctl)

(* ----------------------- part_000: properties ------------------------- *)
P0_Overlays == {"ab-loading-modal", "ab-results-modal", "ab-error-modal"}
P0_ShowOps == {"showLoadingModal", "displayResultsModal", "showErrorModal"}

\* C1: in part_000, after any interleaving of View Results clicks, request
\* completions and close clicks the document holds at most one of the three
\* overlays, and right after every showLoadingModal / displayResultsModal /
\* showErrorModal call it holds exactly one.
C1_AtMostOneOverlay ==
    /\ CountId(p0_dom, P0_Overlays) <= 1
    /\ p0_last.op \in P0_ShowOps => CountId(p0_dom, P0_Overlays) = 1

\* C1 witness: an error overlay has just replaced the overlay of a later
\* request (a show* call made on top of prior modal state).
C1_Witness ==
    /\ p0_last.op = "showErrorModal"
    /\ p0_gen >= 2
    /\ p0_last.n < p0_gen
    /\ CountId(p0_dom, P0_Overlays) = 1

\* C2: the completion of a request that a later showABTestResults call has
\* superseded never removes the results or error overlay shown for the latest
\* request.
C2_StaleCompletionKeepsNewer ==
    [][(/\ p0_inflight' # p0_inflight
        /\ p0_last'.op \in {"displayResultsModal", "showErrorModal"}
        /\ p0_last'.n < p0_gen)
       => \A i \in 1..Len(p0_dom) :
              (p0_dom[i].owner = p0_gen /\ p0_dom[i].id # "ab-loading-modal")
                  => \E j \in 1..Len(p0_dom') : p0_dom'[j] = p0_dom[i]]_vars

\* C4 (part_000): when no test id is resolvable and GET tests answers
\* {success:true, tests:[]}, the continuation presents something: the click
\* is not a silent no-op.
C4_EmptyListIsAnnounced ==
    [][(p0_inflight' # p0_inflight /\ p0_last'.op = "testsEmpty")
           => p0_dom' # p0_dom]_vars

\* C13 (part_000): every failure of a request and every exception raised
\* while a click is handled is caught by the handler: no rejection is left
\* unhandled and no exception leaves the click listener.
C13_NoFailureEscapes ==
    p0_last.op \notin {"testsRejected", "viewDetailsThrew"}

(* ============ comprehensive fix: findTestIdFromContext ================ *)
\* dataset.testId of an element: no attribute, an empty one, or an identifier
Absent == "absent"
AttrValues == {Absent, "", "t1", "t2"}
\* Pieces of text: "u1" and "u2" stand for two strings of the shape
\* xxxxxxxx-xxxx-xxxx-xxxx-xxxxxxxxxxxx in lower-case hex, "X1" for such a
\* string in upper case (the pattern of line 209 has no i flag), "txt" for
\* any other text.
UuidTokens == {"u1", "u2"}
Tokens == UuidTokens \cup {"X1", "txt"}
\* An element: its data-test-id and the text it holds itself, which
\* textContent places before or after the text of the child on the chain.
Nodes ==
    [attr : AttrValues, own : {<< >>}, side : {"before"}]
        \cup [attr : AttrValues, own : {<<"u1">>, <<"u2">>, <<"X1">>}, side : {"before"}]
        \cup [attr : AttrValues, own : {<<"u2">>}, side : {"after"}]
Chains == UNION {[1..d -> Nodes] : d \in 1..MaxDepth}
Pending == "pending"

\* element.textContent: the text of the element and of all its descendants,
\* in document order
RECURSIVE textContent(_, _)
textContent(chain, i) ==
    IF i = 0 THEN << >>
    ELSE IF chain[i].side = "before"
         THEN chain[i].own \o textContent(chain, i - 1)
         ELSE textContent(chain, i - 1) \o chain[i].own

\* line 209: textContent.match(/[a-f0-9]{8}-...-[a-f0-9]{12}/), the first match
uuidMatch(text) ==
    IF \E i \in 1..Len(text) : text[i] \in UuidTokens
    THEN text[CHOOSE i \in 1..Len(text) :
                  /\ text[i] \in UuidTokens
                  /\ \A j \in 1..(i-1) : text[j] \notin UuidTokens]
    ELSE NoId

\* a non-empty string is truthy
Truthy(v) == v \notin {Absent, "", NoId}

\* lines 197-218 with the two checks of the loop body swapped
RECURSIVE CF_findTestIdFromContext_textFirst(_, _)
CF_findTestIdFromContext_textFirst(chain, i) ==
    IF i > Len(chain) THEN NoId
    ELSE IF uuidMatch(textContent(chain, i)) # NoId
         THEN uuidMatch(textContent(chain, i))
    ELSE IF Truthy(chain[i].attr) THEN chain[i].attr
    ELSE CF_findTestIdFromContext_textFirst(chain, i + 1)

\* lines 197-218: the loop from element i of the chain up to document.body
RECURSIVE CF_findTestIdFromContext(_, _)
CF_findTestIdFromContext(chain, i) ==
    IF i > Len(chain) THEN NoId
    ELSE IF Truthy(chain[i].attr) THEN chain[i].attr
    ELSE IF uuidMatch(textContent(chain, i)) # NoId
         THEN uuidMatch(textContent(chain, i))
    ELSE CF_findTestIdFromContext(chain, i + 1)

FnInit ==
    /\ fn_chain \in Chains
    /\ fn_result = Pending

\* findTestIdFromContext(e.target)
FnApply ==
    /\ fn_result = Pending
    /\ fn_result' = CF_findTestIdFromContext(fn_chain, 1)
    /\ UNCHANGED fn_chain
    /\ FrameFn

FnNext == FnApply

(* -------------- findTestIdFromContext: properties --------------------- *)
\* positions of the chain, nearest first
WithAttr(chain) == {i \in 1..Len(chain) : Truthy(chain[i].attr)}
WithUuidText(chain) == {i \in 1..Len(chain) : uuidMatch(textContent(chain, i)) # NoId}
Nearest(S) == CHOOSE i \in S : \A j \in S : i <= j

\* C6 as stated: when an element of the chain carries a (non-empty)
\* data-test-id, findTestIdFromContext returns the value of the nearest such
\* element, and it returns null only when no element of the chain
\* identifies a test.
C6_NearestAttributeWins ==
    fn_result # Pending =>
        /\ WithAttr(fn_chain) # {} =>
               fn_result = fn_chain[Nearest(WithAttr(fn_chain))].attr
        /\ fn_result = NoId =>
               WithAttr(fn_chain) = {} /\ WithUuidText(fn_chain) = {}

\* C6 amended: the nearest non-empty data-test-id is returned unless an
\* element strictly nearer to the clicked one has text that contains a
\* lower-case UUID; then the first UUID in the text of the nearest such
\* element is returned.  null is returned exactly when no element of the
\* chain has a non-empty data-test-id or a UUID in its text.
C6_NearestAttributeOrUuidText ==
    fn_result # Pending =>
        LET A == WithAttr(fn_chain)
            U == WithUuidText(fn_chain)
        IN  /\ (A # {} /\ \A j \in U : j >= Nearest(A)) =>
                   fn_result = fn_chain[Nearest(A)].attr
            /\ (U # {} /\ \A k \in A : Nearest(U) < k) =>
                   fn_result = uuidMatch(textContent(fn_chain, Nearest(U)))
            /\ fn_result = NoId <=> (A = {} /\ U = {})

\* C6 witness: the function has answered for a chain whose clicked element
\* has neither, whose parent has UUID text only and whose grandparent
\* carries a data-test-id.
C6_Witness ==
    /\ fn_result \in UuidTokens
    /\ Len(fn_chain) = 3
    /\ WithAttr(fn_chain) = {3}
    /\ WithUuidText(fn_chain) = {2, 3}

(* ============ part_001: permanent fix and React fix =================== *)
\* line 27: the identifier the permanent fix falls back to
HardcodedTestId == "6957f992-8ec6-410b-b282-762d68b6c04d"

\* The elements a user can click: tag, visible text, and the data-test-id
\* of the container that lines 17-23 find for it (NoId: no container).
P1_Controls ==
    { [tag |-> "BUTTON", text |-> "View Results",    testId |-> "t1"],
      [tag |-> "BUTTON", text |-> "View Results",    testId |-> NoId],
      [tag |-> "SPAN",   text |-> "View Results",    testId |-> NoId],
      [tag |-> "BUTTON", text |-> "View Details",    testId |-> "t1"],
      [tag |-> "BUTTON", text |-> "Create A/B Test", testId |-> NoId],
      [tag |-> "BUTTON", text |-> "Create Test",     testId |-> NoId],
      [tag |-> "BUTTON", text |-> "Start Test",      testId |-> "t1"],
      [tag |-> "BUTTON", text |-> "Start",           testId |-> NoId] }

\* String.prototype.includes on the visible texts above
Includes(text, needle) ==
    \/ text = needle
    \/ text = "Start Test" /\ needle = "Start"

\* The test-name input as collectReactFormData finds it: no such input, or
\* its value (empty, blanks only, a name)
NameFields == {Absent, "", "  ", "Hook Test"}
\* String.prototype.trim
Trim(str) == IF str \in {"", "  "} THEN "" ELSE str

\* lines 295-300: the first collectReactFormData, whose name starts out empty
RF_collectReactFormData_first(field) ==
    [name |-> IF field = Absent THEN ""
              ELSE IF field = "" THEN "Frontend Fix Test" ELSE field]

\* lines 539-553 (the second collectReactFormData, the one in effect): name
RF_collectReactFormData(field) ==
    [name |-> IF field # Absent /\ field # "" THEN field ELSE "Frontend Fix Test"]

\* The part of the page state the React handlers act on
P1_State == [dom |-> p1_dom, inflight |-> p1_inflight, timers |-> p1_timers,
             seq |-> p1_seq, notice |-> "none"]

RF_Modals == {"loading-modal", "ab-results-modal", "alert-modal"}
PF_Modals == {"ab-results", "ab-loading"}

\* lines 682-685
RF_removeModals(dom) == RemoveAllId(dom, RF_Modals)
\* lines 123-128 and 158-163
PF_removeABModals(dom) == RemoveFirstId(RemoveFirstId(dom, "ab-results"), "ab-loading")

\* lines 627-647
RF_showLoading(st) ==
    [st EXCEPT !.dom = Append(RF_removeModals(st.dom),
                              [id |-> "loading-modal", owner |-> 0])]
\* lines 649-652: a hideLoading that finds no overlay to remove
RF_hideLoading_none(st) == st
\* lines 649-652
RF_hideLoading(st) == [st EXCEPT !.dom = RemoveFirstId(st.dom, "loading-modal")]
\* lines 466-537
RF_showResultsModal(st, n) ==
    [st EXCEPT !.dom = Append(RF_removeModals(st.dom),
                              [id |-> "ab-results-modal", owner |-> n])]
\* lines 654-680: the notice and its 5 second timer
RF_showAlert(st, type) ==
    [st EXCEPT !.dom = Append(st.dom, [id |-> "alert-modal", owner |-> 0]),
               !.timers = Append(st.timers,
                   [fn |-> "alertTimeout", delay |-> 5000, ctx |-> NoId]),
               !.notice = type]
\* a fetch: one more promise pending
P1_fetch(st, script, kind, next, testId, ctx) ==
    [st EXCEPT !.inflight = st.inflight \cup
                   {[n |-> st.seq + 1, script |-> script, kind |-> kind, next |-> next,
                     testId |-> testId, ctx |-> ctx]},
               !.seq = st.seq + 1]

\* lines 246-266, up to the fetch
RF_handleCreateABTest(st, field) ==
    LET formData == RF_collectReactFormData(field) IN
    IF formData.name = "" \/ Trim(formData.name) = ""
    THEN RF_showAlert(st, "warning")
    ELSE P1_fetch(RF_showLoading(st), "RF", "create", "none", formData.name, NoId)
\* lines 345-351, up to the fetch
RF_handleViewDetails(st, ctx) ==
    P1_fetch(RF_showLoading(st), "RF", "tests", "analyze", NoId, ctx)
\* lines 379-385, up to the fetch
RF_handleStartTest(st, ctx) ==
    P1_fetch(RF_showLoading(st), "RF", "tests", "start", NoId, ctx)

RF_handle(st, kind, field, ctx) ==
    IF kind = "create" THEN RF_handleCreateABTest(st, field)
    ELSE IF kind = "view" THEN RF_handleViewDetails(st, ctx)
    ELSE RF_handleStartTest(st, ctx)

\* every listener interceptReactEvents has registered runs the handler:
\* stopPropagation (lines 221, 230, 239) does not stop the other listeners
\* of the same node
RECURSIVE RF_runListeners(_, _, _, _, _)
RF_runListeners(st, k, kind, field, ctx) ==
    IF k = 0 THEN st
    ELSE RF_runListeners(RF_handle(st, kind, field, ctx), k - 1, kind, field, ctx)

\* lines 218, 227, 236: what a listener of interceptReactEvents handles
RF_interceptKind(ctl) ==
    IF Includes(ctl.text, "Create A/B Test") THEN "create"
    ELSE IF Includes(ctl.text, "View Details") THEN "view"
    ELSE IF Includes(ctl.text, "Start Test") THEN "start"
    ELSE "none"

\* lines 425-440: what the body listener of addGlobalEventDelegation handles
RF_delegationKind(ctl) ==
    IF ctl.tag # "BUTTON" THEN "none"
    ELSE IF Includes(ctl.text, "Create A/B Test") \/ Includes(ctl.text, "Create Test")
         THEN "create"
    ELSE IF Includes(ctl.text, "View Details") \/ Includes(ctl.text, "View Results")
         THEN "view"
    ELSE IF Includes(ctl.text, "Start Test") \/ Includes(ctl.text, "Start")
         THEN "start"
    ELSE "none"

\* lines 7-10: what the listener of the permanent fix handles
PF_matches(ctl) ==
    Includes(ctl.text, "View Results") \/ Includes(ctl.text, "View Details")

\* lines 57-67
PF_showABLoading(st) ==
    [st EXCEPT !.dom = Append(PF_removeABModals(st.dom),
                              [id |-> "ab-loading", owner |-> 0])]
\* lines 70-73
PF_hideABLoading(st) == [st EXCEPT !.dom = RemoveFirstId(st.dom, "ab-loading")]
\* lines 76-120
PF_showABResults(st, n) ==
    [st EXCEPT !.dom = Append(PF_removeABModals(st.dom),
                              [id |-> "ab-results", owner |-> n])]
\* lines 16-36
PF_handleClick(st, ctl) ==
    LET testId == IF ctl.testId # NoId THEN ctl.testId ELSE HardcodedTestId
    IN  P1_fetch(PF_showABLoading(st), "PF", "analyze", "none", testId, ctl.testId)

\* setTimeout callbacks run in the order of their deadlines: a timer may run
\* before one set earlier only if its delay is the shorter of the two
P1_mayFire(i) ==
    /\ i \in 1..Len(p1_timers)
    /\ \A j \in 1..(i-1) : p1_timers[j].delay > p1_timers[i].delay
\* the pending timers without the one that runs
P1_timersWithout(i) ==
    [j \in 1..(Len(p1_timers)-1) |-> IF j < i THEN p1_timers[j] ELSE p1_timers[j+1]]

P1_Commit(st, op, ctl, invoked) ==
    /\ p1_dom' = st.dom
    /\ p1_inflight' = st.inflight
    /\ p1_timers' = st.timers
    /\ p1_seq' = st.seq
    /\ p1_last' = [op |-> op, ctl |-> ctl, invoked |-> invoked, notice |-> st.notice]

NoControl == [tag |-> "none", text |-> "none", testId |-> NoId]

P1Init ==
    /\ p1_dom = << >>
    /\ p1_inflight = {}
    /\ p1_timers = << >>
    /\ p1_seq = 0
    /\ p1_listeners = 1
    /\ p1_fixed = {}
    /\ p1_events = 0
    /\ p1_listed = {}
    /\ p1_last = [op |-> "init", ctl |-> NoControl, invoked |-> 0, notice |-> "none"]

\* One click, through the listeners in dispatch order: document capture
\* (interceptReactEvents, lines 204-243), body capture
\* (addGlobalEventDelegation, lines 415-442), document bubble (permanent
\* fix, lines 6-54).  A listener that calls stopPropagation keeps the event
\* from the nodes after its own.
P1_Click(ctl, field) ==
    /\ p1_events < MaxEventsP1
    /\ p1_events' = p1_events + 1
    /\ LET k1 == RF_interceptKind(ctl)
           k2 == RF_delegationKind(ctl)
           st0 == P1_State
       IN  IF k1 # "none"
           THEN /\ P1_Commit(RF_runListeners(st0, p1_listeners, k1, field, ctl.testId),
                             "click", ctl, p1_listeners)
                /\ UNCHANGED p1_fixed
           ELSE IF ctl \notin p1_fixed /\ k2 # "none"
           THEN /\ P1_Commit([st0 EXCEPT !.timers = Append(st0.timers,
                                 [fn |-> k2, delay |-> 10, ctx |-> ctl.testId])],
                             "click", ctl, 1)
                /\ p1_fixed' = p1_fixed \cup {ctl}
           ELSE /\ p1_fixed' = p1_fixed \cup {ctl}
                /\ IF PF_matches(ctl)
                   THEN P1_Commit(PF_handleClick(st0, ctl), "click", ctl, 1)
                   ELSE P1_Commit(st0, "click", ctl, 0)
    /\ UNCHANGED <<p1_listeners, p1_listed>>
    /\ FrameP1

\* lines 431, 435, 439: the handler a delegated click has scheduled
P1_DelegatedTimer(t, field) ==
    /\ P1_mayFire(t)
    /\ p1_timers[t].fn \in {"create", "view", "start"}
    /\ P1_Commit(RF_handle([P1_State EXCEPT !.timers = P1_timersWithout(t)],
                           p1_timers[t].fn, field, p1_timers[t].ctx),
                 "handler", NoControl, 0)
    /\ UNCHANGED <<p1_listeners, p1_fixed, p1_events, p1_listed>>
    /\ FrameP1

\* lines 676-679: a notice's 5 second timer removes the first #alert-modal
P1_AlertTimer(t) ==
    /\ P1_mayFire(t)
    /\ p1_timers[t].fn = "alertTimeout"
    /\ P1_Commit([P1_State EXCEPT !.timers = P1_timersWithout(t),
                                  !.dom = RemoveFirstId(p1_dom, "alert-modal")],
                 "alertTimeout", NoControl, 0)
    /\ UNCHANGED <<p1_listeners, p1_fixed, p1_events, p1_listed>>
    /\ FrameP1

\* lines 278-283: one second after a successful create, the Active Tests tab
\* is clicked; the body listener marks it (line 422) and no handler matches
P1_TabTimer(t) ==
    /\ P1_mayFire(t)
    /\ p1_timers[t].fn = "activeTestsTab"
    /\ P1_Commit([P1_State EXCEPT !.timers = P1_timersWithout(t)],
                 "refresh", NoControl, 0)
    /\ p1_fixed' = p1_fixed \cup
           {[tag |-> "BUTTON", text |-> "Active Tests", testId |-> NoId]}
    /\ UNCHANGED <<p1_listeners, p1_events, p1_listed>>
    /\ FrameP1

\* lines 591-615: React adds a node with A/B testing content or a button
\* under #root; the observer schedules interceptReactEvents
P1_ReactRerender ==
    /\ p1_events < MaxEventsP1
    /\ p1_events' = p1_events + 1
    /\ P1_Commit([P1_State EXCEPT !.timers = Append(p1_timers,
                      [fn |-> "reapply", delay |-> 200, ctx |-> NoId])],
                 "rerender", NoControl, 0)
    /\ UNCHANGED <<p1_listeners, p1_fixed, p1_listed>>
    /\ FrameP1

\* lines 610-613 and 202-244: interceptReactEvents runs again and adds a
\* listener (a new function object each time, so nothing deduplicates it)
P1_ReapplyTimer(t) ==
    /\ P1_mayFire(t)
    /\ p1_timers[t].fn = "reapply"
    /\ p1_listeners' = p1_listeners + 1
    /\ P1_Commit([P1_State EXCEPT !.timers = P1_timersWithout(t)],
                 "reapply", NoControl, 0)
    /\ UNCHANGED <<p1_fixed, p1_events, p1_listed>>
    /\ FrameP1

\* lines 353-360 and 387-394 with the catch of 372-376 / 406-410: the
\* continuation of GET tests in handleViewDetails and handleStartTest
RF_TestsDone(r, resp) ==
    /\ r \in p1_inflight
    /\ r.script = "RF" /\ r.kind = "tests"
    /\ LET st0 == [P1_State EXCEPT !.inflight = p1_inflight \ {r}] IN
       IF resp.kind = "json" /\ resp.success /\ Len(resp.tests) > 0
       THEN /\ P1_Commit(P1_fetch(st0, "RF", r.next, "none",
                                  resp.tests[Len(resp.tests)], r.ctx),
                         "testsDone", NoControl, 0)
            /\ p1_listed' = p1_listed \cup {resp.tests[i] : i \in 1..Len(resp.tests)}
       ELSE /\ P1_Commit(RF_showAlert(RF_hideLoading(st0), "error"),
                         IF resp.kind = "json" /\ resp.success THEN "testsEmpty"
                         ELSE "testsFailed", NoControl, 0)
            /\ UNCHANGED p1_listed
    /\ UNCHANGED <<p1_listeners, p1_fixed, p1_events>>
    /\ FrameP1

\* lines 361-376: the continuation of GET analyze-results/{id} (React fix)
RF_AnalyzeDone(r, resp) ==
    /\ r \in p1_inflight
    /\ r.script = "RF" /\ r.kind = "analyze"
    /\ LET st0 == RF_hideLoading([P1_State EXCEPT !.inflight = p1_inflight \ {r}]) IN
       IF resp = "ok"
       THEN P1_Commit(RF_showResultsModal(st0, r.n), "showResultsModal", NoControl, 0)
       ELSE P1_Commit(RF_showAlert(st0, "error"), "analyzeFailed", NoControl, 0)
    /\ UNCHANGED <<p1_listeners, p1_fixed, p1_events, p1_listed>>
    /\ FrameP1

\* lines 395-410: the continuation of POST start-test/{id}
RF_StartDone(r, resp) ==
    /\ r \in p1_inflight
    /\ r.script = "RF" /\ r.kind = "start"
    /\ LET st0 == RF_hideLoading([P1_State EXCEPT !.inflight = p1_inflight \ {r}]) IN
       IF resp \in {"ok", "nodata"}
       THEN P1_Commit(RF_showAlert(st0, "success"), "startDone", NoControl, 0)
       ELSE P1_Commit(RF_showAlert(st0, "error"), "startFailed", NoControl, 0)
    /\ UNCHANGED <<p1_listeners, p1_fixed, p1_events, p1_listed>>
    /\ FrameP1

\* lines 267-292: the continuation of POST create-test
RF_CreateDone(r, resp) ==
    /\ r \in p1_inflight
    /\ r.script = "RF" /\ r.kind = "create"
    /\ LET st0 == RF_hideLoading([P1_State EXCEPT !.inflight = p1_inflight \ {r}]) IN
       IF resp \in {"ok", "nodata"}
       THEN LET st1 == RF_showAlert(st0, "success") IN
            P1_Commit([st1 EXCEPT !.timers = Append(st1.timers,
                          [fn |-> "activeTestsTab", delay |-> 1000, ctx |-> NoId])],
                      "createDone", NoControl, 0)
       ELSE P1_Commit(RF_showAlert(st0, "error"), "createFailed", NoControl, 0)
    /\ UNCHANGED <<p1_listeners, p1_fixed, p1_events, p1_listed>>
    /\ FrameP1

\* lines 37-52: the continuation of GET analyze-results/{id} (permanent
\* fix); failures end in window.alert
PF_AnalyzeDone(r, resp) ==
    /\ r \in p1_inflight
    /\ r.script = "PF" /\ r.kind = "analyze"
    /\ LET st0 == PF_hideABLoading([P1_State EXCEPT !.inflight = p1_inflight \ {r}]) IN
       IF resp = "ok"
       THEN P1_Commit(PF_showABResults(st0, r.n), "showABResults", NoControl, 0)
       ELSE P1_Commit([st0 EXCEPT !.notice = "alert"], "analyzeFailed", NoControl, 0)
    /\ UNCHANGED <<p1_listeners, p1_fixed, p1_events, p1_listed>>
    /\ FrameP1

\* lines 500 and 530: the close buttons of the React fix's results overlay
RF_CloseResults ==
    /\ CountId(p1_dom, {"ab-results-modal"}) > 0
    /\ P1_Commit([P1_State EXCEPT !.dom = RF_removeModals(p1_dom)],
                 "close", NoControl, 0)
    /\ UNCHANGED <<p1_listeners, p1_fixed, p1_events, p1_listed>>
    /\ FrameP1

\* lines 100 and 113: the close buttons of the permanent fix's results overlay
PF_CloseResults ==
    /\ CountId(p1_dom, {"ab-results"}) > 0
    /\ P1_Commit([P1_State EXCEPT !.dom = PF_removeABModals(p1_dom)],
                 "close", NoControl, 0)
    /\ UNCHANGED <<p1_listeners, p1_fixed, p1_events, p1_listed>>
    /\ FrameP1

\* line 668: the close button of a notice
RF_CloseAlert ==
    /\ CountId(p1_dom, {"alert-modal"}) > 0
    /\ P1_Commit([P1_State EXCEPT !.dom = RemoveFirstId(p1_dom, "alert-modal")],
                 "closeAlert", NoControl, 0)
    /\ UNCHANGED <<p1_listeners, p1_fixed, p1_events, p1_listed>>
    /\ FrameP1

P1Next ==
    \/ \E ctl \in P1_Controls, field \in NameFields : P1_Click(ctl, field)
    \/ \E t \in 1..Len(p1_timers), field \in NameFields : P1_DelegatedTimer(t, field)
    \/ \E t \in 1..Len(p1_timers) : P1_AlertTimer(t)
    \/ \E t \in 1..Len(p1_timers) : P1_TabTimer(t)
    \/ P1_ReactRerender
    \/ \E t \in 1..Len(p1_timers) : P1_ReapplyTimer(t)
    \/ \E r \in p1_inflight, resp \in TestsResponses : RF_TestsDone(r, resp)
    \/ \E r \in p1_inflight, resp \in AnalyzeResponses : RF_AnalyzeDone(r, resp)
    \/ \E r \in p1_inflight, resp \in AnalyzeResponses : RF_StartDone(r, resp)
    \/ \E r \in p1_inflight, resp \in AnalyzeResponses : RF_CreateDone(r, resp)
    \/ \E r \in p1_inflight, resp \in AnalyzeResponses : PF_AnalyzeDone(r, resp)
    \/ RF_CloseResults
    \/ PF_CloseResults
    \/ RF_CloseAlert

(* ----------------------- part_001: properties ------------------------- *)
P1_Overlays == {"ab-loading", "ab-results", "loading-modal", "ab-results-modal"}

\* C3: with the whole of part_001 loaded, at most one overlay among
\* #ab-loading, #ab-results, #loading-modal and #ab-results-modal is in the
\* document at any time.
C3_AtMostOneOverlayP1 == CountId(p1_dom, P1_Overlays) <= 1

\* C5 (permanent fix): an analyze-results request made for a click whose
\* element yields no test id carries an identifier that GET tests has
\* answered with.
C5_FallbackIdComesFromList ==
    \A r \in p1_inflight :
        (r.kind = "analyze" /\ r.ctx = NoId) => r.testId \in p1_listed

\* C7 (React fix): a start-test request made for a click whose element
\* yields a test id carries that id.
C7_StartUsesContextId ==
    \A r \in p1_inflight :
        (r.kind = "start" /\ r.ctx # NoId) => r.testId = r.ctx

\* C10 (React fix): however often the setup has run again, one click on a
\* Create A/B Test, View Details or Start Test control invokes its handler
\* exactly once.
C10_ClickInvokesHandlerOnce ==
    (p1_last.op = "click" /\ RF_interceptKind(p1_last.ctl) # "none")
        => p1_last.invoked = 1

\* C15 (React fix): when start-test/{id} answers success:true the handler
\* shows a success notice and triggers a refresh of the active-tests list
\* (the click on the Active Tests tab that a successful create schedules).
C15_StartSuccessRefreshes ==
    p1_last.op = "startDone"
        => /\ p1_last.notice = "success"
           /\ \E i \in 1..Len(p1_timers) : p1_timers[i].fn = "activeTestsTab"

\* C25: every click on a button whose text includes 'View Results',
\* 'Create Test' or 'Start' makes the body listener of
\* addGlobalEventDelegation schedule the matching handler, once, however often
\* that button was clicked before
C25_DelegationSchedulesOncePerClick ==
    [][(/\ p1_events' = p1_events + 1
        /\ p1_last'.op = "click"
        /\ p1_last'.ctl.tag = "BUTTON"
        /\ \/ Includes(p1_last'.ctl.text, "View Results")
           \/ Includes(p1_last'.ctl.text, "Create Test")
           \/ Includes(p1_last'.ctl.text, "Start"))
       => /\ Len(p1_timers') = Len(p1_timers) + 1
          /\ p1_timers'[Len(p1_timers')].fn = RF_delegationKind(p1_last'.ctl)]_vars

(* ================= comprehensive fix: the handlers ==================== *)
\* The create form as collectFormData (lines 95-149) reads it.  The
\* checkboxes are listed by their label text, in document order.
CF_BoxLabels == <<"Call-to-Action", "Video Length">>
CF_ContentOptions == <<"property_showcase", "market_update">>
CF_PlatformOptions == <<"instagram", "facebook">>
\* a page without any of the form controls
CF_NoForm == [present |-> FALSE, name |-> "", location |-> "", content |-> 1,
              platform |-> 1, checked |-> {}]
CF_Forms ==
    [present : {TRUE}, name : {"", "  ", "Hook Test"}, location : {"", "Leamington"},
     content : 1..2, platform : 1..2, checked : SUBSET (1..Len(CF_BoxLabels))]

\* lines 120-131: the categories of one checked box, in the order pushed
CF_categories(label) ==
    (IF label = "Opening Hooks" THEN <<"hooks">> ELSE << >>)
        \o (IF label = "Call-to-Action" THEN <<"cta">> ELSE << >>)
        \o (IF label = "Emoji Usage" THEN <<"emoji">> ELSE << >>)
        \o (IF label = "Hashtag Strategy" THEN <<"hashtags">> ELSE << >>)

\* lines 117-131: the checked boxes, in document order
RECURSIVE CF_testElements(_, _)
CF_testElements(checked, i) ==
    IF i > Len(CF_BoxLabels) THEN << >>
    ELSE (IF i \in checked THEN CF_categories(CF_BoxLabels[i]) ELSE << >>)
             \o CF_testElements(checked, i + 1)

\* value || fallback
OrDefault(v, d) == IF v = "" THEN d ELSE v

\* lines 95-149
CF_collectFormData(form) ==
    LET testElements == IF form.present THEN CF_testElements(form.checked, 1) ELSE << >>
    IN  [name |-> IF form.present /\ form.name # Absent
                  THEN OrDefault(form.name, "Hook Testing - Windsor Properties")
                  ELSE "Hook Testing - Windsor Properties",
         content_type |-> IF form.present
                          THEN OrDefault(CF_ContentOptions[form.content], "property_showcase")
                          ELSE "property_showcase",
         platform |-> IF form.present
                      THEN OrDefault(CF_PlatformOptions[form.platform], "instagram")
                      ELSE "instagram",
         location |-> IF form.present THEN OrDefault(form.location, "Windsor")
                      ELSE "Windsor",
         test_elements |-> IF Len(testElements) = 0 THEN <<"hooks">> ELSE testElements,
         variations_count |-> 3]

\* lines 361-381: the location input (placeholder "Windsor") is left alone
CF_clearForm(form) ==
    IF form.present
    THEN [form EXCEPT !.name = "", !.checked = {}, !.content = 1, !.platform = 1]
    ELSE form

CF_RemovedIds == {"loading-modal", "results-modal", "ab-results-modal", "active-tests-modal"}
\* lines 432-435
CF_removeExistingModals(dom) == RemoveAllId(dom, CF_RemovedIds)
\* lines 405-425
CF_showLoading(dom) ==
    Append(CF_removeExistingModals(dom), [id |-> "loading-modal", owner |-> 0])
\* lines 427-430
CF_hideLoading(dom) == RemoveFirstId(dom, "loading-modal")
\* lines 244-293
CF_showResultsModal(dom, n) ==
    Append(CF_removeExistingModals(dom), [id |-> "results-modal", owner |-> n])

NoBody == [name |-> "none"]
CF_Last(op, notice, body) == [op |-> op, notice |-> notice, body |-> body]

\* the clicked element of a View Details / Start Test click and its ancestors
CF_ClickChains ==
    [1..1 -> {nd \in Nodes : nd.attr \in {Absent, "t1"} /\ nd.own \in {<< >>, <<"u1">>}}]

CFInit ==
    /\ cf_form \in {CF_NoForm,
                    [present |-> TRUE, name |-> "", location |-> "", content |-> 1,
                     platform |-> 1, checked |-> {}]}
    /\ cf_dom = << >>
    /\ cf_inflight = {}
    /\ cf_seq = 0
    /\ cf_clicks = 0
    /\ cf_refreshes = 0
    /\ cf_last = CF_Last("init", "none", NoBody)

\* the user types into the test-name input
CF_EditName(v) ==
    /\ cf_form.present /\ cf_form.name # v
    /\ cf_form' = [cf_form EXCEPT !.name = v]
    /\ cf_last' = CF_Last("edit", "none", NoBody)
    /\ UNCHANGED <<cf_dom, cf_inflight, cf_seq, cf_clicks, cf_refreshes>>
    /\ FrameCF

\* the user types into the location input
CF_EditLocation(v) ==
    /\ cf_form.present /\ cf_form.location # v
    /\ cf_form' = [cf_form EXCEPT !.location = v]
    /\ cf_last' = CF_Last("edit", "none", NoBody)
    /\ UNCHANGED <<cf_dom, cf_inflight, cf_seq, cf_clicks, cf_refreshes>>
    /\ FrameCF

\* the user picks an option of the content-type and of the platform select
CF_EditSelects(c, p) ==
    /\ cf_form.present /\ <<cf_form.content, cf_form.platform>> # <<c, p>>
    /\ cf_form' = [cf_form EXCEPT !.content = c, !.platform = p]
    /\ cf_last' = CF_Last("edit", "none", NoBody)
    /\ UNCHANGED <<cf_dom, cf_inflight, cf_seq, cf_clicks, cf_refreshes>>
    /\ FrameCF

\* the user toggles a checkbox
CF_ToggleBox(i) ==
    /\ cf_form.present
    /\ cf_form' = [cf_form EXCEPT !.checked =
                       IF i \in @ THEN @ \ {i} ELSE @ \cup {i}]
    /\ cf_last' = CF_Last("edit", "none", NoBody)
    /\ UNCHANGED <<cf_dom, cf_inflight, cf_seq, cf_clicks, cf_refreshes>>
    /\ FrameCF

\* lines 48-72: handleCreateTest up to the fetch
CF_handleCreateTestBody ==
    /\ cf_clicks < MaxClicksCF
    /\ cf_clicks' = cf_clicks + 1
    /\ LET formData == CF_collectFormData(cf_form) IN
       IF formData.name = "" \/ Trim(formData.name) = ""
       THEN /\ cf_last' = CF_Last("handleCreateTest", "warning", NoBody)
            /\ UNCHANGED <<cf_dom, cf_inflight, cf_seq>>
       ELSE /\ cf_dom' = CF_showLoading(cf_dom)
            /\ cf_seq' = cf_seq + 1
            /\ cf_inflight' = cf_inflight \cup
                   {[n |-> cf_seq + 1, kind |-> "create", testId |-> NoId]}
            /\ cf_last' = CF_Last("handleCreateTest", "none", formData)
    /\ UNCHANGED <<cf_form, cf_refreshes>>

CF_handleCreateTest ==
    /\ CF_handleCreateTestBody
    /\ FrameCF

\* lines 73-92: the continuation of POST create-test
CF_CreateDone(r, resp) ==
    /\ r \in cf_inflight /\ r.kind = "create"
    /\ cf_inflight' = cf_inflight \ {r}
    /\ cf_dom' = CF_hideLoading(cf_dom)
    /\ IF resp \in {"ok", "nodata"}
       THEN /\ cf_last' = CF_Last("createDone", "success", NoBody)
            /\ cf_refreshes' = cf_refreshes + 1
            /\ cf_form' = CF_clearForm(cf_form)
       ELSE /\ cf_last' = CF_Last("createFailed", "error", NoBody)
            /\ UNCHANGED <<cf_refreshes, cf_form>>
    /\ UNCHANGED <<cf_seq, cf_clicks>>
    /\ FrameCF

\* lines 220-225: loadTestResults up to the fetch
CF_loadTestResults(testId, from) ==
    /\ cf_dom' = CF_showLoading(cf_dom)
    /\ cf_seq' = cf_seq + 1
    /\ cf_inflight' = (cf_inflight \ from) \cup
           {[n |-> cf_seq + 1, kind |-> "analyze", testId |-> testId]}
    /\ cf_last' = CF_Last("loadTestResults", "none", [name |-> testId])

\* lines 166-195: handleViewDetails
CF_handleViewDetailsBody(chain) ==
    /\ cf_clicks < MaxClicksCF
    /\ cf_clicks' = cf_clicks + 1
    /\ LET testId == CF_findTestIdFromContext(chain, 1) IN
       IF testId = NoId
       THEN /\ cf_seq' = cf_seq + 1
            /\ cf_inflight' = cf_inflight \cup
                   {[n |-> cf_seq + 1, kind |-> "tests", testId |-> NoId]}
            /\ cf_last' = CF_Last("fetchTests", "none", NoBody)
            /\ UNCHANGED cf_dom
       ELSE CF_loadTestResults(testId, {})
    /\ UNCHANGED <<cf_form, cf_refreshes>>

CF_handleViewDetails(chain) ==
    /\ CF_handleViewDetailsBody(chain)
    /\ FrameCF

\* lines 178-190: the continuation of GET tests
CF_TestsDone(r, resp) ==
    /\ r \in cf_inflight /\ r.kind = "tests"
    /\ IF resp.kind = "json" /\ resp.success /\ Len(resp.tests) > 0
       THEN CF_loadTestResults(resp.tests[Len(resp.tests)], {r})
       ELSE /\ cf_inflight' = cf_inflight \ {r}
            /\ cf_last' = IF resp.kind = "json"
                          THEN CF_Last(IF resp.success THEN "testsEmpty" ELSE "testsFailed",
                                       "notests", NoBody)
                          ELSE CF_Last("testsRejected", "error", NoBody)
            /\ UNCHANGED <<cf_dom, cf_seq>>
    /\ UNCHANGED <<cf_form, cf_clicks, cf_refreshes>>
    /\ FrameCF

\* lines 226-241: the continuation of GET analyze-results/{id}
CF_AnalyzeDone(r, resp) ==
    /\ r \in cf_inflight /\ r.kind = "analyze"
    /\ cf_inflight' = cf_inflight \ {r}
    /\ IF resp = "ok"
       THEN /\ cf_dom' = CF_showResultsModal(CF_hideLoading(cf_dom), r.n)
            /\ cf_last' = CF_Last("showResultsModal", "none", NoBody)
       ELSE /\ cf_dom' = CF_hideLoading(cf_dom)
            /\ cf_last' = CF_Last("analyzeFailed", "error", NoBody)
    /\ UNCHANGED <<cf_form, cf_seq, cf_clicks, cf_refreshes>>
    /\ FrameCF

\* lines 310-330: handleStartTest up to the fetch
CF_handleStartTestBody(chain) ==
    /\ cf_clicks < MaxClicksCF
    /\ cf_clicks' = cf_clicks + 1
    /\ LET testId == CF_findTestIdFromContext(chain, 1) IN
       IF testId = NoId
       THEN /\ cf_last' = CF_Last("handleStartTest", "noid", NoBody)
            /\ UNCHANGED <<cf_dom, cf_inflight, cf_seq>>
       ELSE /\ cf_dom' = CF_showLoading(cf_dom)
            /\ cf_seq' = cf_seq + 1
            /\ cf_inflight' = cf_inflight \cup
                   {[n |-> cf_seq + 1, kind |-> "start", testId |-> testId]}
            /\ cf_last' = CF_Last("handleStartTest", "none", [name |-> testId])
    /\ UNCHANGED <<cf_form, cf_refreshes>>

CF_handleStartTest(chain) ==
    /\ CF_handleStartTestBody(chain)
    /\ FrameCF

\* lines 331-347: the continuation of POST start-test/{id}
CF_StartDone(r, resp) ==
    /\ r \in cf_inflight /\ r.kind = "start"
    /\ cf_inflight' = cf_inflight \ {r}
    /\ cf_dom' = CF_hideLoading(cf_dom)
    /\ IF resp \in {"ok", "nodata"}
       THEN /\ cf_last' = CF_Last("startDone", "success", NoBody)
            /\ cf_refreshes' = cf_refreshes + 1
       ELSE /\ cf_last' = CF_Last("startFailed", "error", NoBody)
            /\ UNCHANGED cf_refreshes
    /\ UNCHANGED <<cf_form, cf_seq, cf_clicks>>
    /\ FrameCF

\* lines 273 and 286: the close buttons of the results overlay
CF_CloseResults ==
    /\ CountId(cf_dom, {"results-modal"}) > 0
    /\ cf_dom' = CF_removeExistingModals(cf_dom)
    /\ cf_last' = CF_Last("close", "none", NoBody)
    /\ UNCHANGED <<cf_form, cf_inflight, cf_seq, cf_clicks, cf_refreshes>>
    /\ FrameCF

CFNext ==
    \/ \E v \in {"", "  ", "Hook Test"} : CF_EditName(v)
    \/ \E v \in {"", "Leamington"} : CF_EditLocation(v)
    \/ \E c \in 1..2 : CF_EditSelects(c, c)
    \/ \E i \in 1..Len(CF_BoxLabels) : CF_ToggleBox(i)
    \/ CF_handleCreateTest
    \/ \E r \in cf_inflight, resp \in AnalyzeResponses : CF_CreateDone(r, resp)
    \/ \E chain \in CF_ClickChains : CF_handleViewDetails(chain)
    \/ \E r \in cf_inflight, resp \in TestsResponses : CF_TestsDone(r, resp)
    \/ \E r \in cf_inflight, resp \in AnalyzeResponses : CF_AnalyzeDone(r, resp)
    \/ \E chain \in CF_ClickChains : CF_handleStartTest(chain)
    \/ \E r \in cf_inflight, resp \in AnalyzeResponses : CF_StartDone(r, resp)
    \/ CF_CloseResults

(* ------------------- comprehensive fix: properties -------------------- *)
\* C8 (comprehensive fix): a create-test click made while the test-name
\* input is empty or holds only blanks issues no request and ends in a
\* warning notice.
C8_EmptyNameBlocked ==
    (/\ cf_last.op = "handleCreateTest"
     /\ cf_form.present
     /\ Trim(cf_form.name) = "")
        => /\ cf_last.notice = "warning"
           /\ cf_last.body = NoBody

\* handleCreateTest called with a non-empty test name issues one POST
\* whose body has name, content_type, platform and location equal to the
\* current values of the form fields, test_elements equal to the categories
\* of the checked checkboxes and variations_count 3.
CF_BodyEqualsForm ==
    (/\ cf_last.op = "handleCreateTest"
     /\ cf_form.present
     /\ Trim(cf_form.name) # "")
        => /\ \E r \in cf_inflight : r.kind = "create" /\ r.n = cf_seq
           /\ cf_last.body =
                  [name |-> cf_form.name,
                   content_type |-> CF_ContentOptions[cf_form.content],
                   platform |-> CF_PlatformOptions[cf_form.platform],
                   location |-> cf_form.location,
                   test_elements |-> CF_testElements(cf_form.checked, 1),
                   variations_count |-> 3]

(* =================== comprehensive fix: the page ===================== *)
\* line 28: querySelector is handed the selector list
\*   button[class*="Create"], button:contains("Create A/B Test")
\* :contains() is not a CSS pseudo-class, so the list does not parse and
\* querySelector throws a SyntaxError before it looks at the document.
CF_CreateSelectorValid == FALSE

PG_Setup == [timers |-> pg_timers, bound |-> pg_bound,
             observing |-> pg_observing, threw |-> FALSE]

\* lines 26-46
CF_fixCreateTestButton(st, hasCreate) ==
    IF ~CF_CreateSelectorValid THEN [st EXCEPT !.threw = TRUE]
    ELSE IF hasCreate THEN [st EXCEPT !.bound = @ \cup {"create"}]
    ELSE [st EXCEPT !.timers = @ \cup {"retry"}]

\* lines 151-164: removeEventListener then addEventListener of one function
CF_fixViewDetailsButtons(st) == [st EXCEPT !.bound = @ \cup {"view"}]

\* lines 295-308
CF_fixStartTestButtons(st) == [st EXCEPT !.bound = @ \cup {"start"}]

\* lines 383-402: the observer is installed
CF_observeForChanges(st) == [st EXCEPT !.observing = TRUE]

\* lines 10-24: a step that throws ends the callback
CF_initializeABTestingFix(st, hasCreate) ==
    LET s1 == CF_fixCreateTestButton(st, hasCreate)
        s2 == IF s1.threw THEN s1 ELSE CF_fixViewDetailsButtons(s1)
        s3 == IF s2.threw THEN s2 ELSE CF_fixStartTestButtons(s2)
    IN  IF s3.threw THEN s3 ELSE CF_observeForChanges(s3)

\* lines 389-393: the callback the observer schedules after 500 ms
CF_reapplyFixes(st, hasCreate) ==
    LET s1 == CF_fixCreateTestButton(st, hasCreate)
        s2 == IF s1.threw THEN s1 ELSE CF_fixViewDetailsButtons(s1)
    IN  IF s2.threw THEN s2 ELSE CF_fixStartTestButtons(s2)

PG_Last(op, kind, invoked, form, posts, body) ==
    [op |-> op, kind |-> kind, invoked |-> invoked, form |-> form,
     posts |-> posts, body |-> body]

PGInit ==
    /\ pg_ready = FALSE
    /\ pg_timers = {}
    /\ pg_bound = {}
    /\ pg_observing = FALSE
    /\ pg_hasCreate \in BOOLEAN
    /\ pg_threw = FALSE
    /\ pg_last = PG_Last("init", "none", 0, CF_NoForm, 0, NoBody)

\* lines 4-8: the DOMContentLoaded listener schedules initializeABTestingFix
PG_DOMContentLoaded ==
    /\ ~pg_ready
    /\ pg_ready' = TRUE
    /\ pg_timers' = pg_timers \cup {"init"}
    /\ pg_last' = PG_Last("loaded", "none", 0, cf_form, 0, NoBody)
    /\ UNCHANGED <<pg_bound, pg_observing, pg_hasCreate, pg_threw>>
    /\ UNCHANGED varsCF
    /\ FramePG

\* a setTimeout callback runs: lines 8, 44 and 389
PG_Timer(t) ==
    /\ t \in pg_timers
    /\ LET st == [PG_Setup EXCEPT !.timers = @ \ {t}]
           res == CASE t = "init" -> CF_initializeABTestingFix(st, pg_hasCreate)
                    [] t = "retry" -> CF_fixCreateTestButton(st, pg_hasCreate)
                    [] OTHER -> CF_reapplyFixes(st, pg_hasCreate)
       IN  /\ pg_timers' = res.timers
           /\ pg_bound' = res.bound
           /\ pg_observing' = res.observing
           /\ pg_threw' = (pg_threw \/ res.threw)
    /\ pg_last' = PG_Last("timer", t, 0, cf_form, 0, NoBody)
    /\ UNCHANGED <<pg_ready, pg_hasCreate>>
    /\ UNCHANGED varsCF
    /\ FramePG

\* React puts a Create A/B Test button into the document or takes it out;
\* lines 385-394: added nodes make the observer schedule the fixes again
PG_Render(b) ==
    /\ pg_hasCreate # b
    /\ pg_hasCreate' = b
    /\ pg_bound' = IF b THEN pg_bound ELSE pg_bound \ {"create"}
    /\ pg_timers' = IF b /\ pg_observing THEN pg_timers \cup {"reapply"} ELSE pg_timers
    /\ pg_last' = PG_Last("render", "none", 0, cf_form, 0, NoBody)
    /\ UNCHANGED <<pg_ready, pg_observing, pg_threw>>
    /\ UNCHANGED varsCF
    /\ FramePG

\* the user clicks a control: the listeners bound by lines 40, 158 and 303
PG_Click(kind, chain) ==
    /\ kind = "create" => pg_hasCreate
    /\ IF kind \in pg_bound
       THEN /\ CASE kind = "create" -> CF_handleCreateTestBody
                 [] kind = "view" -> CF_handleViewDetailsBody(chain)
                 [] OTHER -> CF_handleStartTestBody(chain)
            /\ pg_last' = PG_Last("click", kind, 1, cf_form,
                              Cardinality({r \in cf_inflight' \ cf_inflight :
                                               r.kind = "create"}),
                              cf_last'.body)
            /\ pg_timers' = IF pg_observing /\ cf_dom' # cf_dom
                            THEN pg_timers \cup {"reapply"} ELSE pg_timers
       ELSE /\ UNCHANGED varsCF
            /\ pg_last' = PG_Last("click", kind, 0, cf_form, 0, NoBody)
            /\ UNCHANGED pg_timers
    /\ UNCHANGED <<pg_ready, pg_bound, pg_observing, pg_hasCreate, pg_threw>>
    /\ FramePG

PGNext ==
    \/ PG_DOMContentLoaded
    \/ \E t \in {"init", "retry", "reapply"} : PG_Timer(t)
    \/ \E b \in BOOLEAN : PG_Render(b)
    \/ \E kind \in {"create", "view", "start"}, chain \in CF_ClickChains :
           PG_Click(kind, chain)
    \/ \E v \in {"", "  ", "Hook Test"} : CF_EditName(v)
    \/ \E v \in {"", "Leamington"} : CF_EditLocation(v)
    \/ \E c \in 1..2 : CF_EditSelects(c, c)
    \/ \E i \in 1..Len(CF_BoxLabels) : CF_ToggleBox(i)

(* --------------- comprehensive fix, the page: properties -------------- *)
\* C9: on the page, once the script has set itself up, one click on the
\* Create A/B Test button made with a non-empty test name issues exactly one
\* POST to create-test, whose body has name, content_type, platform and
\* location equal to the current values of the form fields, test_elements
\* equal to the categories of the checked checkboxes and variations_count 3.
C9_ClickPostsForm ==
    (/\ pg_last.op = "click" /\ pg_last.kind = "create"
     /\ "init" \notin pg_timers /\ pg_ready
     /\ pg_last.form.present
     /\ Trim(pg_last.form.name) # "")
        => /\ pg_last.posts = 1
           /\ pg_last.body =
                  [name |-> pg_last.form.name,
                   content_type |-> CF_ContentOptions[pg_last.form.content],
                   platform |-> CF_PlatformOptions[pg_last.form.platform],
                   location |-> pg_last.form.location,
                   test_elements |-> CF_testElements(pg_last.form.checked, 1),
                   variations_count |-> 3]

\* C30: once the callback of the 1000 ms timer has run, initializeABTestingFix
\* has done its four steps without throwing, with or without a Create button:
\* the view and start buttons are bound, the observer is installed, and the
\* Create button is bound or a retry is pending
C30_InitPerformsAllSteps ==
    (pg_ready /\ "init" \notin pg_timers) =>
        /\ ~pg_threw
        /\ {"view", "start"} \subseteq pg_bound
        /\ pg_observing
        /\ ("create" \in pg_bound \/ "retry" \in pg_timers)

(* ============== continuations: one response, one handler ============== *)
\* Text is a sequence of pieces: "<" and ">" are the two characters, "a" is
\* a letter, every other piece is a run of plain text of the script itself.
Chars == {"a", "<", ">"}
\* longest error string a response carries
MaxErrLen == 2
Strs(n) == UNION {[1..k -> Chars] : k \in 0..n}

\* What the user reads when a string is inserted as markup (insertAdjacentHTML):
\* "<" followed by a letter opens a tag, which runs to the next ">" (or into
\* the markup of the template when the string has none); any other "<" is
\* text.
RECURSIVE HtmlText(_, _, _)
HtmlText(str, i, inTag) ==
    IF i > Len(str) THEN << >>
    ELSE IF inTag
         THEN HtmlText(str, i + 1, str[i] # ">")
    ELSE IF str[i] = "<" /\ i < Len(str) /\ str[i + 1] = "a"
         THEN HtmlText(str, i + 1, TRUE)
    ELSE <<str[i]>> \o HtmlText(str, i + 1, FALSE)

\* String.prototype.includes on pieces
Contains(text, part) ==
    \E i \in 0..(Len(text) - Len(part)) : SubSeq(text, i + 1, i + Len(part)) = part

\* The JSON body of a response: success, error (hasError: the key is there),
\* data (there or not), tests (the length of the array)
RS_Bodies ==
    {b \in [success : BOOLEAN, hasError : BOOLEAN, error : Strs(MaxErrLen),
            data : BOOLEAN, tests : 0..1] : ~b.hasError => b.error = << >>}
RS_NoBody == [success |-> FALSE, hasError |-> FALSE, error |-> << >>,
              data |-> FALSE, tests |-> 0]
\* A settled fetch: rejected (net = "reject"), or a response with its
\* response.ok, whether its body parses as JSON, and the body
RS_Responses ==
    {r \in [net : {"ok"}, ok : BOOLEAN, json : BOOLEAN, body : RS_Bodies] :
         ~r.json => r.body = RS_NoBody}
        \cup {[net |-> "reject", ok |-> FALSE, json |-> FALSE, body |-> RS_NoBody]}

\* fetch(...) or response.json() rejects
RS_Rejected(resp) == resp.net = "reject" \/ ~resp.json
\* data.error || fallback
RS_ErrorOr(body, fallback) ==
    IF body.hasError /\ body.error # << >> THEN body.error ELSE fallback
\* error.message of the rejection
RS_ErrorMessage == <<"error.message">>

RS_Out(view, via, text, cleared, refresh) ==
    [view |-> view, via |-> via, text |-> text, cleared |-> cleared, refresh |-> refresh]
\* a notice built as markup (showErrorModal of part_000, showAlert of part_001)
RS_Markup(view, via, message, refresh) ==
    RS_Out(view, via, HtmlText(message, 1, FALSE), FALSE, refresh)
\* a notice shown as plain text (window.alert, textContent)
RS_Plain(view, via, message, cleared, refresh) ==
    RS_Out(view, via, message, cleared, refresh)
RS_Nothing == RS_Out("none", "none", << >>, FALSE, FALSE)

RS_AnalyzeHandlers == {"P0_analyze", "PF_analyze", "RF_analyze", "CF_analyze"}
RS_Handlers ==
    RS_AnalyzeHandlers \cup
    {"P0_tests", "RF_tests", "CF_tests", "RF_create", "CF_create",
     "RF_start", "CF_start", "CP_train", "CP_create"}

\* the generic string each handler shows for a failure without error
RS_Fallback(h) ==
    CASE h = "PF_analyze" -> <<"Failed to load results">>
      [] h = "CP_train" -> <<"An unknown error occurred.">>
      [] h = "CP_create" -> <<"Failed to create A/B test.">>
      [] OTHER -> <<"Unknown error">>

\* part_000 lines 71-85
RS_P0_analyze(resp) ==
    IF RS_Rejected(resp)
    THEN RS_Markup("error", "showErrorModal",
                   <<"Error loading results: ">> \o RS_ErrorMessage, FALSE)
    ELSE IF resp.body.success /\ resp.body.data
    THEN RS_Out("results", "displayResultsModal", << >>, FALSE, FALSE)
    ELSE RS_Markup("error", "showErrorModal",
                   <<"Failed to load test results: ">>
                       \o RS_ErrorOr(resp.body, RS_Fallback("P0_analyze")), FALSE)

\* part_000 lines 31-38: no catch on this chain
RS_P0_tests(resp) ==
    IF RS_Rejected(resp) THEN RS_Out("unhandled", "none", << >>, FALSE, FALSE)
    ELSE IF resp.body.success /\ resp.body.tests > 0
    THEN RS_Out("next", "showABTestResults", << >>, FALSE, FALSE)
    ELSE RS_Nothing

\* part_001 lines 37-52 (permanent fix)
RS_PF_analyze(resp) ==
    IF RS_Rejected(resp)
    THEN RS_Plain("error", "alert", <<"Error: ">> \o RS_ErrorMessage, FALSE, FALSE)
    ELSE IF resp.body.success /\ resp.body.data
    THEN RS_Out("results", "showABResults", << >>, FALSE, FALSE)
    ELSE RS_Plain("error", "alert",
                  <<"Error: ">> \o RS_ErrorOr(resp.body, RS_Fallback("PF_analyze")),
                  FALSE, FALSE)

\* part_001 lines 267-292 (React fix)
RS_RF_create(resp) ==
    IF RS_Rejected(resp)
    THEN RS_Markup("error", "showAlert",
                   <<"Error creating test: ">> \o RS_ErrorMessage, FALSE)
    ELSE IF resp.body.success
    THEN RS_Markup("success", "showAlert", <<"A/B Test created successfully!">>, TRUE)
    ELSE RS_Markup("error", "showAlert",
                   <<"Error creating test: ">>
                       \o RS_ErrorOr(resp.body, RS_Fallback("RF_create")), FALSE)

\* part_001 lines 352-360 and 372-376 (the same in 386-394 and 406-410)
RS_RF_tests(resp) ==
    IF RS_Rejected(resp)
    THEN RS_Markup("error", "showAlert",
                   <<"Error loading test details: ">> \o RS_ErrorMessage, FALSE)
    ELSE IF resp.body.success /\ resp.body.tests > 0
    THEN RS_Out("next", "fetch", << >>, FALSE, FALSE)
    ELSE RS_Markup("error", "showAlert",
                   <<"Error loading test details: ">> \o <<"No tests found">>, FALSE)

\* part_001 lines 361-376
RS_RF_analyze(resp) ==
    IF RS_Rejected(resp)
    THEN RS_Markup("error", "showAlert",
                   <<"Error loading test details: ">> \o RS_ErrorMessage, FALSE)
    ELSE IF resp.body.success /\ resp.body.data
    THEN RS_Out("results", "showResultsModal", << >>, FALSE, FALSE)
    ELSE RS_Markup("error", "showAlert",
                   <<"Error loading test details: ">>
                       \o RS_ErrorOr(resp.body, RS_Fallback("RF_analyze")), FALSE)

\* part_001 lines 395-410
RS_RF_start(resp) ==
    IF RS_Rejected(resp)
    THEN RS_Markup("error", "showAlert",
                   <<"Error starting test: ">> \o RS_ErrorMessage, FALSE)
    ELSE IF resp.body.success
    THEN RS_Markup("success", "showAlert", <<"Test started successfully!">>, FALSE)
    ELSE RS_Markup("error", "showAlert",
                   <<"Error starting test: ">>
                       \o RS_ErrorOr(resp.body, RS_Fallback("RF_start")), FALSE)

\* ab-testing-frontend-fix.js lines 73-92
RS_CF_create(resp) ==
    IF RS_Rejected(resp)
    THEN RS_Plain("error", "alert",
                  <<"Error creating test: ">> \o RS_ErrorMessage, FALSE, FALSE)
    ELSE IF resp.body.success
    THEN RS_Plain("success", "alert", <<"A/B Test created successfully!">>, TRUE, TRUE)
    ELSE RS_Plain("error", "alert",
                  <<"Error creating test: ">>
                      \o RS_ErrorOr(resp.body, RS_Fallback("CF_create")), FALSE, FALSE)

\* ab-testing-frontend-fix.js lines 178-190
RS_CF_tests(resp) ==
    IF RS_Rejected(resp)
    THEN RS_Plain("error", "alert",
                  <<"Error loading tests: ">> \o RS_ErrorMessage, FALSE, FALSE)
    ELSE IF resp.body.success /\ resp.body.tests > 0
    THEN RS_Out("next", "loadTestResults", << >>, FALSE, FALSE)
    ELSE RS_Plain("error", "alert",
                  <<"No tests found. Please create a test first.">>, FALSE, FALSE)

\* ab-testing-frontend-fix.js lines 226-241
RS_CF_analyze(resp) ==
    IF RS_Rejected(resp)
    THEN RS_Plain("error", "alert",
                  <<"Error loading results: ">> \o RS_ErrorMessage, FALSE, FALSE)
    ELSE IF resp.body.success /\ resp.body.data
    THEN RS_Out("results", "showResultsModal", << >>, FALSE, FALSE)
    ELSE RS_Plain("error", "alert",
                  <<"Error loading results: ">>
                      \o RS_ErrorOr(resp.body, RS_Fallback("CF_analyze")), FALSE, FALSE)

\* ab-testing-frontend-fix.js lines 331-347
RS_CF_start(resp) ==
    IF RS_Rejected(resp)
    THEN RS_Plain("error", "alert",
                  <<"Error starting test: ">> \o RS_ErrorMessage, FALSE, FALSE)
    ELSE IF resp.body.success
    THEN RS_Plain("success", "alert", <<"A/B Test started successfully!">>, FALSE, TRUE)
    ELSE RS_Plain("error", "alert",
                  <<"Error starting test: ">>
                      \o RS_ErrorOr(resp.body, RS_Fallback("CF_start")), FALSE, FALSE)

\* social-media-automation.js lines 74-83: response.ok && result.success
RS_CP_train(resp) ==
    IF RS_Rejected(resp)
    THEN RS_Plain("error", "showNotification",
                  <<"Failed to add content: ">> \o RS_ErrorMessage, FALSE, FALSE)
    ELSE IF resp.ok /\ resp.body.success
    THEN RS_Plain("success", "showNotification",
                  <<"Content added to AI memory!">>, TRUE, FALSE)
    ELSE RS_Plain("error", "showNotification",
                  <<"Failed to add content: ">>
                      \o RS_ErrorOr(resp.body, RS_Fallback("CP_train")), FALSE, FALSE)

\* window.abTesting.displayResultsModal of ab-testing.js, which is not part of
\* the sources: the presenter's contract is that a render call renders the
\* overlay or, when it cannot, logs and does nothing; it never throws across
\* the call boundary
AB_displayResultsModal(hasData) ==
    [threw |-> FALSE, view |-> IF hasData THEN "results" ELSE "none"]

\* a createABTest that calls window.abTesting.displayResultsModal without
\* testing that the module is there: the TypeError lands in the catch
RS_CP_create_unguarded(resp, module) ==
    IF RS_Rejected(resp)
    THEN RS_Plain("error", "showNotification",
                  <<"Failed to create A/B test: ">> \o RS_ErrorMessage, FALSE, FALSE)
    ELSE IF resp.ok /\ resp.body.success
    THEN IF module
         THEN RS_Out("results", "displayResultsModal", << >>, FALSE, FALSE)
         ELSE RS_Plain("error", "showNotification",
                       <<"Failed to create A/B test: ">> \o RS_ErrorMessage, FALSE, FALSE)
    ELSE RS_Plain("error", "showNotification",
                  <<"Failed to create A/B test: ">>
                      \o RS_ErrorOr(resp.body, RS_Fallback("CP_create")), FALSE, FALSE)

\* social-media-automation.js lines 182-205; module: window.abTesting with
\* its displayResultsModal is on the page.  The call of displayResultsModal is
\* inside the try, so an exception of it would end in the catch.
RS_CP_create(resp, module) ==
    IF RS_Rejected(resp)
    THEN RS_Plain("error", "showNotification",
                  <<"Failed to create A/B test: ">> \o RS_ErrorMessage, FALSE, FALSE)
    ELSE IF resp.ok /\ resp.body.success
    THEN IF module
         THEN LET shown == AB_displayResultsModal(resp.body.data) IN
              IF shown.threw
              THEN RS_Plain("error", "showNotification",
                            <<"Failed to create A/B test: ">> \o RS_ErrorMessage,
                            FALSE, FALSE)
              ELSE RS_Out("results", "displayResultsModal", << >>, FALSE, FALSE)
         ELSE RS_Plain("warning", "showNotification",
                       <<"A/B Test created, but cannot display results.">>, FALSE, FALSE)
    ELSE RS_Plain("error", "showNotification",
                  <<"Failed to create A/B test: ">>
                      \o RS_ErrorOr(resp.body, RS_Fallback("CP_create")), FALSE, FALSE)

RS_handle(h, resp, module) ==
    CASE h = "P0_analyze" -> RS_P0_analyze(resp)
      [] h = "P0_tests" -> RS_P0_tests(resp)
      [] h = "PF_analyze" -> RS_PF_analyze(resp)
      [] h = "RF_create" -> RS_RF_create(resp)
      [] h = "RF_tests" -> RS_RF_tests(resp)
      [] h = "RF_analyze" -> RS_RF_analyze(resp)
      [] h = "RF_start" -> RS_RF_start(resp)
      [] h = "CF_create" -> RS_CF_create(resp)
      [] h = "CF_tests" -> RS_CF_tests(resp)
      [] h = "CF_analyze" -> RS_CF_analyze(resp)
      [] h = "CF_start" -> RS_CF_start(resp)
      [] h = "CP_train" -> RS_CP_train(resp)
      [] OTHER -> RS_CP_create(resp, module)

RS_NoCall == [handler |-> "none", module |-> FALSE, out |-> RS_Nothing,
              resp |-> [net |-> "reject", ok |-> FALSE, json |-> FALSE,
                        body |-> RS_NoBody]]

RsInit == rs_call = RS_NoCall

\* the promise of one request settles and the handler's continuation runs
RS_Settle(h, resp, module) ==
    /\ rs_call.handler = "none"
    /\ rs_call' = [handler |-> h, module |-> module, resp |-> resp,
                   out |-> RS_handle(h, resp, module)]
    /\ FrameRs

RsNext ==
    \E h \in RS_Handlers, resp \in RS_Responses :
        \E module \in (IF h = "CP_create" THEN BOOLEAN ELSE {FALSE}) :
            RS_Settle(h, resp, module)

(* -------------------- continuations: properties ----------------------- *)
\* C11: when analyze-results/{id} answers {success:false, error:E}, the user
\* sees an error notice whose text contains E and no results modal; when
\* error is absent the notice holds the generic fallback string; an answer
\* with success:true but no data is shown as an error too.
C11_ErrorShownVerbatim ==
    (/\ rs_call.handler \in RS_AnalyzeHandlers
     /\ ~RS_Rejected(rs_call.resp)
     /\ ~(rs_call.resp.body.success /\ rs_call.resp.body.data))
        => /\ rs_call.out.view = "error"
           /\ ~rs_call.resp.body.success =>
                  Contains(rs_call.out.text,
                           RS_ErrorOr(rs_call.resp.body, RS_Fallback(rs_call.handler)))

\* C12: a response with a non-2xx status is treated as a failure whatever
\* its JSON body says: an error notice is shown and there is no success
\* notice, no results modal, no form clearing and no list refresh.
C12_Non2xxIsFailure ==
    (/\ rs_call.handler \in RS_Handlers
     /\ rs_call.resp.net = "ok"
     /\ ~rs_call.resp.ok)
        => /\ rs_call.out.view = "error"
           /\ ~rs_call.out.cleared
           /\ ~rs_call.out.refresh

C14_CreateSuccessClearsAndRefreshes ==
    rs_call.handler \in {"CF_create", "RF_create"}
        => IF ~RS_Rejected(rs_call.resp) /\ rs_call.resp.body.success
           THEN /\ rs_call.out.view = "success"
                /\ rs_call.out.cleared
                /\ rs_call.out.refresh
           ELSE /\ rs_call.out.view = "error"
                /\ ~rs_call.out.cleared

(* ================= results renderers: the variation list ============== *)
\* most variations a payload carries
MaxVariations == 3
\* variation.version: a tag, or no such key
RN_Versions == {"A", "B", Absent}
\* A TestResultPayload as the renderers read it: whether it has a
\* `variations` key, and the version of each variation in sequence (every
\* variation has a string content, which the templates call .replace on)
RN_Payloads ==
    [has : {TRUE}, variations : UNION {[1..k -> RN_Versions] : k \in 0..MaxVariations}]
        \cup {[has |-> FALSE, variations |-> << >>]}

\* `Version ${variation.version}`: a missing version prints as "undefined"
RN_versionLabel(v) == <<"Version", IF v = Absent THEN "undefined" ELSE v>>
\* `Version ${String.fromCharCode(65 + index)}`: the code unit of the letter
RN_letterLabel(index) == <<"Version", 65 + index>>

RN_Out(blocks, placeholder) == [blocks |-> blocks, placeholder |-> placeholder]
\* one block per variation, in the order of the sequence (Array.prototype.map)
RN_byVersion(variations) ==
    [i \in 1..Len(variations) |-> [src |-> i, label |-> RN_versionLabel(variations[i])]]
RN_byLetter(variations) ==
    [i \in 1..Len(variations) |-> [src |-> i, label |-> RN_letterLabel(i - 1)]]

\* part_000 lines 147-179: `testData.variations ? ... : placeholder`
RN_P0_displayResultsModal(payload) ==
    IF payload.has THEN RN_Out(RN_byVersion(payload.variations), FALSE)
    ELSE RN_Out(<< >>, TRUE)

\* part_001 lines 79-93
RN_PF_showABResults(payload) ==
    IF payload.has /\ Len(payload.variations) > 0
    THEN RN_Out(RN_byVersion(payload.variations), FALSE)
    ELSE RN_Out(<< >>, TRUE)

\* part_001 lines 469-490
RN_RF_showResultsModal(payload) ==
    IF payload.has /\ Len(payload.variations) > 0
    THEN RN_Out(RN_byLetter(payload.variations), FALSE)
    ELSE RN_Out(<< >>, TRUE)

\* ab-testing-frontend-fix.js lines 248-266
RN_CF_showResultsModal(payload) ==
    IF payload.has /\ Len(payload.variations) > 0
    THEN RN_Out(RN_byLetter(payload.variations), FALSE)
    ELSE RN_Out(<< >>, TRUE)

RN_Renderers == {"P0_displayResultsModal", "PF_showABResults",
                 "RF_showResultsModal", "CF_showResultsModal"}
RN_render(f, payload) ==
    CASE f = "P0_displayResultsModal" -> RN_P0_displayResultsModal(payload)
      [] f = "PF_showABResults" -> RN_PF_showABResults(payload)
      [] f = "RF_showResultsModal" -> RN_RF_showResultsModal(payload)
      [] OTHER -> RN_CF_showResultsModal(payload)

RN_NoCall == [renderer |-> "none", payload |-> [has |-> FALSE, variations |-> << >>],
              out |-> RN_Out(<< >>, FALSE)]
RnInit == rn_call = RN_NoCall

\* one renderer is handed one payload
RN_Render(f, payload) ==
    /\ rn_call.renderer = "none"
    /\ rn_call' = [renderer |-> f, payload |-> payload, out |-> RN_render(f, payload)]
    /\ FrameRn

RnNext == \E f \in RN_Renderers, payload \in RN_Payloads : RN_Render(f, payload)

(* ------------------ results renderers: properties --------------------- *)
\* C16: given a payload whose variations sequence is empty, every renderer
\* outputs the 'no variations' placeholder and zero variation blocks.
C16_EmptyShowsPlaceholder ==
    (/\ rn_call.renderer \in RN_Renderers
     /\ rn_call.payload.has
     /\ rn_call.payload.variations = << >>)
        => /\ rn_call.out.placeholder
           /\ rn_call.out.blocks = << >>

\* C17: given a payload with n >= 1 variations, the renderer emits exactly
\* n blocks, in the order of the input sequence, and the labels of the
\* blocks are pairwise distinct whatever the version fields hold.
C17_BlocksDistinctInOrder ==
    (/\ rn_call.renderer \in RN_Renderers
     /\ rn_call.payload.has
     /\ Len(rn_call.payload.variations) >= 1)
        => LET blocks == rn_call.out.blocks IN
           /\ Len(blocks) = Len(rn_call.payload.variations)
           /\ \A i \in 1..Len(blocks) : blocks[i].src = i
           /\ \A i, j \in 1..Len(blocks) :
                  blocks[i].label = blocks[j].label => i = j

(* ======================= form extraction ============================== *)
\* part_001 lines 577-581: label.textContent.toLowerCase() includes 'hook',
\* 'call-to-action', 'emoji', 'hashtag'; the categories in the order pushed
RF_categories(label) ==
    (IF label \in {"Opening Hooks"} THEN <<"hooks">> ELSE << >>)
        \o (IF label \in {"Call-to-Action"} THEN <<"cta">> ELSE << >>)
        \o (IF label \in {"Emoji Usage"} THEN <<"emoji">> ELSE << >>)
        \o (IF label \in {"Hashtag Strategy"} THEN <<"hashtags">> ELSE << >>)

\* part_001 lines 574-583: the checked boxes, in document order
RECURSIVE RF_testElements(_, _)
RF_testElements(checked, i) ==
    IF i > Len(CF_BoxLabels) THEN << >>
    ELSE (IF i \in checked THEN RF_categories(CF_BoxLabels[i]) ELSE << >>)
             \o RF_testElements(checked, i + 1)

\* part_001 lines 539-588: the whole record of the collectReactFormData in
\* effect; test_elements is replaced only when some box is checked
RF_collectReactFormRecord(form) ==
    [name |-> RF_collectReactFormData(IF form.present THEN form.name ELSE Absent).name,
     content_type |-> IF form.present
                      THEN OrDefault(CF_ContentOptions[form.content], "property_showcase")
                      ELSE "property_showcase",
     platform |-> IF form.present
                  THEN OrDefault(CF_PlatformOptions[form.platform], "instagram")
                  ELSE "instagram",
     location |-> IF form.present /\ form.location # "" THEN form.location
                  ELSE "Windsor",
     test_elements |-> IF form.present /\ form.checked # {}
                       THEN RF_testElements(form.checked, 1)
                       ELSE <<"hooks">>,
     variations_count |-> 3]

\* the documents extraction runs on: no control at all, every control, or
\* every control but the test-name input
EX_Forms ==
    {CF_NoForm} \cup CF_Forms \cup {[f EXCEPT !.name = Absent] : f \in CF_Forms}
EX_Extractors == {"collectFormData", "collectReactFormData"}
EX_extract(x, form) ==
    IF x = "collectFormData" THEN CF_collectFormData(form)
    ELSE RF_collectReactFormRecord(form)

EX_NoCall == [extractor |-> "none", form |-> CF_NoForm, out |-> NoBody]
ExInit == ex_call = EX_NoCall

\* one extractor reads one document
EX_Extract(x, form) ==
    /\ ex_call.extractor = "none"
    /\ ex_call' = [extractor |-> x, form |-> form, out |-> EX_extract(x, form)]
    /\ FrameEx

ExNext == \E x \in EX_Extractors, form \in EX_Forms : EX_Extract(x, form)

(* -------------------- form extraction: properties --------------------- *)
\* C18: on a document where every form control is absent, extraction
\* returns a record in which name, content_type, platform, location,
\* test_elements and variations_count all hold their named defaults.
C18_AbsentControlsGiveDefaults ==
    (ex_call.extractor \in EX_Extractors /\ ~ex_call.form.present)
        => ex_call.out =
               [name |-> IF ex_call.extractor = "collectFormData"
                         THEN "Hook Testing - Windsor Properties"
                         ELSE "Frontend Fix Test",
                content_type |-> "property_showcase",
                platform |-> "instagram",
                location |-> "Windsor",
                test_elements |-> <<"hooks">>,
                variations_count |-> 3]

\* C18 witness: collectReactFormData has read a document without controls
C18_Witness ==
    /\ ex_call.extractor = "collectReactFormData"
    /\ ~ex_call.form.present
    /\ ex_call.out.name = "Frontend Fix Test"

\* C19: extraction never yields an empty test_elements: with no box checked
\* it yields exactly ['hooks'], and with any boxes checked, whatever their
\* labels, it yields a non-empty list.
C19_TestElementsNeverEmpty ==
    ex_call.extractor \in EX_Extractors
        => /\ ex_call.out.test_elements # << >>
           /\ (ex_call.form.present /\ ex_call.form.checked = {})
                  => ex_call.out.test_elements = <<"hooks">>

(* ========================= transient notices ========================== *)
\* notices shown in one behaviour
MaxNotices == 3

\* the first #alert-modal in document order (document.getElementById), as a
\* set: empty when there is none
NT_firstAlert(dom) ==
    {dom[i].n : i \in {k \in 1..Len(dom) :
                           /\ dom[k].kind = "alert"
                           /\ \A j \in 1..(k - 1) : dom[j].kind # "alert"}}
NT_without(dom, ns) == SelectSeq(dom, LAMBDA o : o.n \notin ns)
NT_Last(op, by, present, removed) ==
    [op |-> op, by |-> by, present |-> present, removed |-> removed]

NtInit ==
    /\ nt_dom = << >>
    /\ nt_timers = << >>
    /\ nt_seq = 0
    /\ nt_last = NT_Last("init", 0, FALSE, {})

\* part_001 lines 654-680: the notice is appended and its timer is set
NT_showAlert ==
    /\ nt_seq < MaxNotices
    /\ nt_seq' = nt_seq + 1
    /\ nt_dom' = Append(nt_dom, [kind |-> "alert", n |-> nt_seq + 1])
    /\ nt_timers' = Append(nt_timers, [kind |-> "alert", n |-> nt_seq + 1])
    /\ nt_last' = NT_Last("show", nt_seq + 1, FALSE, {})
    /\ FrameNt

\* social-media-automation.js lines 210-222
NT_showNotification ==
    /\ nt_seq < MaxNotices
    /\ nt_seq' = nt_seq + 1
    /\ nt_dom' = Append(nt_dom, [kind |-> "notification", n |-> nt_seq + 1])
    /\ nt_timers' = Append(nt_timers, [kind |-> "notification", n |-> nt_seq + 1])
    /\ nt_last' = NT_Last("show", nt_seq + 1, FALSE, {})
    /\ FrameNt

\* The timer set first runs first (every delay is 5000 ms).  part_001 lines
\* 676-679 remove the first #alert-modal of the document;
\* social-media-automation.js line 221 removes the element the timer was
\* set for.
NT_Timer ==
    /\ nt_timers # << >>
    /\ LET t == Head(nt_timers)
           gone == IF t.kind = "alert" THEN NT_firstAlert(nt_dom)
                   ELSE {t.n} \cap {nt_dom[i].n : i \in 1..Len(nt_dom)}
       IN  /\ nt_dom' = NT_without(nt_dom, gone)
           /\ nt_last' = NT_Last("timer", t.n,
                                 \E i \in 1..Len(nt_dom) : nt_dom[i].n = t.n, gone)
    /\ nt_timers' = Tail(nt_timers)
    /\ UNCHANGED nt_seq
    /\ FrameNt

\* part_001 line 668: the close button of notice n removes the first
\* #alert-modal of the document
NT_CloseAlert(n) ==
    /\ \E i \in 1..Len(nt_dom) : nt_dom[i].n = n /\ nt_dom[i].kind = "alert"
    /\ nt_dom' = NT_without(nt_dom, NT_firstAlert(nt_dom))
    /\ nt_last' = NT_Last("close", n, TRUE, NT_firstAlert(nt_dom))
    /\ UNCHANGED <<nt_timers, nt_seq>>
    /\ FrameNt

\* part_001 lines 682-685, called by showLoading and showResultsModal:
\* every #alert-modal goes
NT_removeModals ==
    /\ \E i \in 1..Len(nt_dom) : nt_dom[i].kind = "alert"
    /\ nt_dom' = SelectSeq(nt_dom, LAMBDA o : o.kind # "alert")
    /\ nt_last' = NT_Last("removeModals", 0, FALSE,
                          {nt_dom[i].n : i \in {k \in 1..Len(nt_dom) :
                                                    nt_dom[k].kind = "alert"}})
    /\ UNCHANGED <<nt_timers, nt_seq>>
    /\ FrameNt

NtNext ==
    \/ NT_showAlert
    \/ NT_showNotification
    \/ NT_Timer
    \/ \E n \in 1..MaxNotices : NT_CloseAlert(n)
    \/ NT_removeModals

(* -------------------- transient notices: properties ------------------- *)
\* C20: a notice leaves the document when its own 5 second timer runs or
\* its own close button is clicked: the timer of a notice removes that
\* notice (if it is still there) and no other, and closing a notice removes
\* that notice and no other.
C20_NoticeRemovedByItself ==
    nt_last.op \in {"timer", "close"}
        => nt_last.removed = (IF nt_last.present THEN {nt_last.by} ELSE {})

(* ============================ copy buttons ============================ *)
(* copyToClipboard (part_000 and the comprehensive fix), copyABText and   *)
(* copyContent (part_001) behind one copy button.  writeText settles in a *)
(* later task; all timers have the same delay, so they run in the order   *)
(* they were set.                                                          *)
\* clicks made on the copy button in one behaviour
MaxCopyClicks == 3

CY_Original == "Copy Content"
CY_Copied == "Copied!"
CY_Functions == {"P0_copyToClipboard", "CF_copyToClipboard", "PF_copyABText", "RF_copyContent"}

\* the label the timer of a successful copy sets: the functions other than
\* copyABText read button.textContent when writeText resolves and restore that
CY_restoredLabel(fn, label) ==
    IF fn = "PF_copyABText" THEN CY_Original ELSE label

\* whether the catch callback copies through a textarea and execCommand
CY_hasFallback(fn) == fn \in {"P0_copyToClipboard", "PF_copyABText"}

CY_Last(op, threw, fallback, notice) ==
    [op |-> op, threw |-> threw, fallback |-> fallback, notice |-> notice]

CyInit ==
    /\ cy_fn \in CY_Functions
    /\ cy_api \in {"present", "missing"}
    /\ cy_label = CY_Original
    /\ cy_pending = 0
    /\ cy_timers = << >>
    /\ cy_clicks = 0
    /\ cy_last = CY_Last("init", FALSE, FALSE, FALSE)

\* onclick: navigator.clipboard.writeText(text) is evaluated first; with
\* navigator.clipboard undefined the member access throws before any promise
\* exists, so neither .then nor .catch applies
CY_Click ==
    /\ cy_fn \in CY_Functions
    /\ cy_clicks < MaxCopyClicks
    /\ cy_clicks' = cy_clicks + 1
    /\ IF cy_api = "missing"
       THEN /\ cy_last' = CY_Last("click", TRUE, FALSE, FALSE)
            /\ UNCHANGED cy_pending
       ELSE /\ cy_last' = CY_Last("click", FALSE, FALSE, FALSE)
            /\ cy_pending' = cy_pending + 1
    /\ UNCHANGED <<cy_fn, cy_api, cy_label, cy_timers>>
    /\ FrameCy

\* writeText resolved: the .then callback
CY_Resolve ==
    /\ cy_pending > 0
    /\ cy_pending' = cy_pending - 1
    /\ cy_label' = CY_Copied
    /\ cy_timers' = Append(cy_timers, CY_restoredLabel(cy_fn, cy_label))
    /\ cy_last' = CY_Last("resolve", FALSE, FALSE, FALSE)
    /\ UNCHANGED <<cy_fn, cy_api, cy_clicks>>
    /\ FrameCy

\* writeText rejected: the .catch callback
CY_Reject ==
    /\ cy_pending > 0
    /\ cy_pending' = cy_pending - 1
    /\ IF CY_hasFallback(cy_fn)
       THEN /\ cy_label' = CY_Copied
            /\ cy_timers' = Append(cy_timers, CY_Original)
            /\ cy_last' = CY_Last("reject", FALSE, TRUE, FALSE)
       ELSE /\ cy_last' = CY_Last("reject", FALSE, FALSE, TRUE)
            /\ UNCHANGED <<cy_label, cy_timers>>
    /\ UNCHANGED <<cy_fn, cy_api, cy_clicks>>
    /\ FrameCy

\* the oldest 2 second timer runs
CY_Timer ==
    /\ cy_timers # << >>
    /\ cy_label' = Head(cy_timers)
    /\ cy_timers' = Tail(cy_timers)
    /\ cy_last' = CY_Last("timer", FALSE, FALSE, FALSE)
    /\ UNCHANGED <<cy_fn, cy_api, cy_pending, cy_clicks>>
    /\ FrameCy

CyNext == CY_Click \/ CY_Resolve \/ CY_Reject \/ CY_Timer

\* C21: once every writeText has settled and every 2 second timer has run,
\* the copy button shows the label it had before any copy, however many times
\* it was clicked and whatever it showed at the time of a click
C21_LabelRevertsToOriginal ==
    (cy_pending = 0 /\ cy_timers = << >>) => cy_label = CY_Original

\* C22: a copy never throws out of the click handler, and a copy whose
\* writeText rejected has gone through the textarea fallback and leaves a
\* visible outcome (the confirmation label or a notice)
C22_FailureFallsBackToSelection ==
    /\ ~cy_last.threw
    /\ cy_last.op = "reject" =>
          /\ cy_last.fallback
          /\ (cy_last.notice \/ cy_label = CY_Copied)

(* ======================== click classification ======================== *)
(* What the click listener of each script takes a clicked element for.    *)
\* The clicked element (e.target): its tag, a label its textContent includes
\* (a container's textContent includes the labels of the buttons in it) and
\* the role the page marked it with (data-action / class), if any.
CL_Texts == {"View Results", "View Details", "Create A/B Test", "Create Test",
             "Start Test", "Start", "Save"}
CL_Markers == {"none", "create", "view", "start"}
CL_Elements == [tag : {"BUTTON", "DIV"}, text : CL_Texts, marker : CL_Markers]

CL_Listeners == {"P0_listener", "PF_listener", "RF_intercept", "RF_delegation", "CP_listener"}

\* part_000 lines 11-12: the text of e.target, or of the button around it
CL_P0_listener(el) ==
    IF Includes(el.text, "View Results") THEN "view" ELSE "none"

\* part_001 lines 7-10
CL_PF_listener(el) ==
    IF PF_matches(el) THEN "view" ELSE "none"

\* social-media-automation.js lines 36-41: the class of e.target
CL_CP_listener(el) ==
    IF el.marker = "create" THEN "create" ELSE "none"

CL_classify(listener, el) ==
    CASE listener = "P0_listener"   -> CL_P0_listener(el)
      [] listener = "PF_listener"   -> CL_PF_listener(el)
      [] listener = "RF_intercept"  -> RF_interceptKind(el)
      [] listener = "RF_delegation" -> RF_delegationKind(el)
      [] listener = "CP_listener"   -> CL_CP_listener(el)

CL_NoCall == [listener |-> "none",
              el |-> [tag |-> "DIV", text |-> "Save", marker |-> "none"],
              out |-> "none"]

ClInit == cl_call = CL_NoCall

CL_Click(listener, el) ==
    /\ cl_call.listener = "none"
    /\ cl_call' = [listener |-> listener, el |-> el, out |-> CL_classify(listener, el)]
    /\ FrameCl

ClNext == \E listener \in CL_Listeners, el \in CL_Elements : CL_Click(listener, el)

\* the intent the label of a button stands for when the page gave no marker
CL_textIntent(text) ==
    IF text \in {"Create A/B Test", "Create Test"} THEN "create"
    ELSE IF text \in {"View Results", "View Details"} THEN "view"
    ELSE IF text \in {"Start Test", "Start"} THEN "start"
    ELSE "none"

\* C23: a marked control is taken for what its marker says, whatever its text;
\* text decides only on an unmarked button; an element that is neither marked
\* nor a button triggers no intent
C23_MarkerDecidesIntent ==
    LET el == cl_call.el
        out == cl_call.out
    IN  cl_call.listener \in CL_Listeners =>
          /\ el.marker # "none" =>
                \A t \in CL_Texts :
                    CL_classify(cl_call.listener, [el EXCEPT !.text = t]) = out
          /\ (el.marker # "none" /\ out # "none") => out = el.marker
          /\ (el.marker = "none" /\ el.tag # "BUTTON") => out = "none"
          /\ (el.marker = "none" /\ out # "none") => out = CL_textIntent(el.text)

(* ========================= variation content ========================== *)
(* Every renderer puts variation.content into its template twice: as the  *)
(* body of the block, and inside the onclick attribute of the copy button *)
(* as a single-quoted string literal with ' replaced by \'.  The template *)
(* is then parsed as markup.                                              *)
\* longest variation content, in characters
MaxContentLen == 2
CN_Chars == {"a", "<", ">", "'", "\"", "\\"}
CN_Contents == UNION {[1..k -> CN_Chars] : k \in 0..MaxContentLen}
\* the quote of the template that closes the string literal after the content
CN_Close == "close"

\* tags the content opens when it is parsed as markup
RECURSIVE CN_tagsOpened(_, _, _)
CN_tagsOpened(str, i, inTag) ==
    IF i > Len(str) THEN 0
    ELSE IF inTag
         THEN CN_tagsOpened(str, i + 1, str[i] # ">")
    ELSE IF str[i] = "<" /\ i < Len(str) /\ str[i + 1] = "a"
         THEN 1 + CN_tagsOpened(str, i + 1, TRUE)
    ELSE CN_tagsOpened(str, i + 1, FALSE)

\* content.replace(/'/g, "\\'")
RECURSIVE CN_escapeQuotes(_)
CN_escapeQuotes(str) ==
    IF str = << >> THEN << >>
    ELSE (IF Head(str) = "'" THEN <<"\\", "'">> ELSE <<Head(str)>>)
             \o CN_escapeQuotes(Tail(str))

\* the value of onclick="..." as the HTML parser reads it: up to the first
\* double quote
RECURSIVE CN_attributeValue(_)
CN_attributeValue(src) ==
    IF src = << >> \/ Head(src) = "\"" THEN << >>
    ELSE <<Head(src)>> \o CN_attributeValue(Tail(src))

\* the string literal that starts the argument list of the copy call, as the
\* script parser reads it: a backslash takes the next character with it, an
\* unescaped quote ends the literal; the call compiles only when the literal
\* ends at the quote of the template
RECURSIVE CN_stringLiteral(_, _, _)
CN_stringLiteral(src, i, acc) ==
    IF i > Len(src) THEN [ok |-> FALSE, arg |-> << >>]
    ELSE IF src[i] = CN_Close THEN [ok |-> TRUE, arg |-> acc]
    ELSE IF src[i] = "'" THEN [ok |-> FALSE, arg |-> << >>]
    ELSE IF src[i] = "\\"
         THEN IF i = Len(src) THEN [ok |-> FALSE, arg |-> << >>]
              ELSE CN_stringLiteral(src, i + 2,
                       Append(acc, IF src[i + 1] = CN_Close THEN "'" ELSE src[i + 1]))
    ELSE CN_stringLiteral(src, i + 1, Append(acc, src[i]))

\* one variation block: the text the user reads, the tags the content added
\* to the block, and what a click on the copy button hands to the copy action
CN_variationBlock(content) ==
    LET copy == CN_stringLiteral(
                    CN_attributeValue(CN_escapeQuotes(content) \o <<CN_Close>>),
                    1, << >>)
    IN  [text |-> HtmlText(content, 1, FALSE),
         tags |-> CN_tagsOpened(content, 1, FALSE),
         copies |-> copy.ok,
         arg |-> copy.arg]

CN_NoCall == [renderer |-> "none", content |-> << >>, out |-> CN_variationBlock(<< >>)]
CnInit == cn_call = CN_NoCall

\* one renderer is handed a payload with one variation of this content
CN_Render(f, content) ==
    /\ cn_call.renderer = "none"
    /\ cn_call' = [renderer |-> f, content |-> content, out |-> CN_variationBlock(content)]
    /\ FrameCn

CnNext == \E f \in RN_Renderers, content \in CN_Contents : CN_Render(f, content)

\* C24: whatever characters the content of a variation has, its block shows
\* the content as it is, the content adds no element to the block, and the
\* copy button hands exactly the content to the copy action
C24_ContentIsOpaque ==
    cn_call.renderer # "none" =>
        /\ cn_call.out.text = cn_call.content
        /\ cn_call.out.tags = 0
        /\ cn_call.out.copies
        /\ cn_call.out.arg = cn_call.content

(* ===================== loading overlays at rest ======================= *)
\* C26: in each fix script, once no request is in flight any more, no loading
\* overlay is left in the document
C26_NoLoadingOnceAllCompleted ==
    /\ p0_inflight = {} => CountId(p0_dom, {"ab-loading-modal"}) = 0
    /\ p1_inflight = {} => CountId(p1_dom, {"ab-loading", "loading-modal"}) = 0
    /\ cf_inflight = {} => CountId(cf_dom, {"loading-modal"}) = 0

\* two overlapping requests of the React fix have completed, the last one
\* through the 'No tests found' path
C26_Witness ==
    /\ p1_seq >= 2
    /\ p1_inflight = {}
    /\ p1_last.op = "testsEmpty"

(* ================= ContentPlatform: the two buttons =================== *)
(* addTrainingContent and generateContent: async methods, so each runs up *)
(* to its await in the click's task and continues when the fetch settles. *)
\* clicks made on the two buttons in one behaviour
MaxPlatformClicks == 3

\* the elements the methods use without checking that they exist
GP_Optional == {"post-image-url", "post-type-select", "generator-type", "generator-results"}
GP_Buttons == {"train", "generate"}
\* how a request ends: 2xx with success true, 2xx with success false, a
\* non-2xx status, a body that is not JSON, a rejected fetch
GP_Outcomes == {"success", "successFalse", "non2xx", "badJson", "reject"}
\* the text input of the method: empty, or some text
GP_Inputs == {"", "text"}

GP_Last(op, notice, threw) == [op |-> op, notice |-> notice, threw |-> threw]

GpInit ==
    /\ gp_page \in SUBSET GP_Optional
    /\ gp_disabled = {}
    /\ gp_inflight = [b \in GP_Buttons |-> 0]
    /\ gp_clicks = 0
    /\ gp_last = GP_Last("init", "none", FALSE)

\* lines 46-72: addTrainingContent up to its fetch.  Lines 60-61 read
\* imageUrlInput.value and typeSelect.value before the button is disabled.
GP_addTrainingContent(input) ==
    /\ gp_clicks < MaxPlatformClicks
    /\ "train" \notin gp_disabled
    /\ gp_clicks' = gp_clicks + 1
    /\ IF input = ""
       THEN /\ gp_last' = GP_Last("addTrainingContent", "warning", FALSE)
            /\ UNCHANGED <<gp_disabled, gp_inflight>>
       ELSE IF ~({"post-image-url", "post-type-select"} \subseteq gp_page)
       THEN /\ gp_last' = GP_Last("addTrainingContent", "none", TRUE)
            /\ UNCHANGED <<gp_disabled, gp_inflight>>
       ELSE /\ gp_disabled' = gp_disabled \cup {"train"}
            /\ gp_inflight' = [gp_inflight EXCEPT !["train"] = @ + 1]
            /\ gp_last' = GP_Last("addTrainingContent", "none", FALSE)
    /\ UNCHANGED gp_page
    /\ FrameGp

\* lines 73-87: the rest of addTrainingContent, catch and finally included
GP_TrainDone(outcome) ==
    /\ gp_inflight["train"] > 0
    /\ gp_inflight' = [gp_inflight EXCEPT !["train"] = @ - 1]
    /\ gp_disabled' = gp_disabled \ {"train"}
    /\ gp_last' = GP_Last("trainDone",
                          IF outcome = "success" THEN "success" ELSE "error", FALSE)
    /\ UNCHANGED <<gp_page, gp_clicks>>
    /\ FrameGp

\* lines 98-114: generateContent up to its fetch.  Line 111 writes
\* resultsContainer.innerHTML after the button is disabled and before the try;
\* line 114 reads typeSelect.value inside the try, before the fetch.
GP_generateContent(input) ==
    /\ gp_clicks < MaxPlatformClicks
    /\ "generate" \notin gp_disabled
    /\ gp_clicks' = gp_clicks + 1
    /\ IF input = ""
       THEN /\ gp_last' = GP_Last("generateContent", "warning", FALSE)
            /\ UNCHANGED <<gp_disabled, gp_inflight>>
       ELSE IF "generator-results" \notin gp_page
       THEN /\ gp_disabled' = gp_disabled \cup {"generate"}
            /\ gp_last' = GP_Last("generateContent", "none", TRUE)
            /\ UNCHANGED gp_inflight
       ELSE IF "generator-type" \notin gp_page
       THEN /\ gp_last' = GP_Last("generateContent", "error", FALSE)
            /\ UNCHANGED <<gp_disabled, gp_inflight>>
       ELSE /\ gp_disabled' = gp_disabled \cup {"generate"}
            /\ gp_inflight' = [gp_inflight EXCEPT !["generate"] = @ + 1]
            /\ gp_last' = GP_Last("generateContent", "none", FALSE)
    /\ UNCHANGED gp_page
    /\ FrameGp

\* lines 115-129: the rest of generateContent, catch and finally included
GP_GenerateDone(outcome) ==
    /\ gp_inflight["generate"] > 0
    /\ gp_inflight' = [gp_inflight EXCEPT !["generate"] = @ - 1]
    /\ gp_disabled' = gp_disabled \ {"generate"}
    /\ gp_last' = GP_Last("generateDone",
                          IF outcome = "success" THEN "none" ELSE "error", FALSE)
    /\ UNCHANGED <<gp_page, gp_clicks>>
    /\ FrameGp

GpNext ==
    \/ \E input \in GP_Inputs : GP_addTrainingContent(input)
    \/ \E outcome \in GP_Outcomes : GP_TrainDone(outcome)
    \/ \E input \in GP_Inputs : GP_generateContent(input)
    \/ \E outcome \in GP_Outcomes : GP_GenerateDone(outcome)

\* C27: a button is disabled only while its own request is in flight, there is
\* never more than one such request, and so every outcome leaves the button
\* enabled, whichever page elements are there
C27_ButtonEnabledAfterEveryOutcome ==
    \A b \in GP_Buttons :
        /\ gp_inflight[b] <= 1
        /\ b \in gp_disabled => gp_inflight[b] = 1

(* ============ ContentPlatform: recommendation to base_content ========= *)
(* displayResults writes content, hashtags and focus of a recommendation  *)
(* into data attributes of its Create A/B Test button;                    *)
(* handleCreateABTestClick reads them back.  Strings are sequences of     *)
(* characters; "%22" and the like stand for one percent escape.           *)
\* longest content / focus string, in characters
MaxFieldLen == 2
\* most hashtags of one recommendation
MaxHashtags == 2

RT_Chars == {"a", "\"", "%"}
RT_Strings == UNION {[1..k -> RT_Chars] : k \in 0..MaxFieldLen}
\* rec.hashtags: no such key (undefined), or an array of tags
RT_NoHashtags == [has |-> FALSE, tags |-> << >>]
RT_Hashtags ==
    {RT_NoHashtags} \cup
    {[has |-> TRUE, tags |-> t] : t \in UNION {[1..k -> {"#a", "#b"}] : k \in 0..MaxHashtags}}
RT_Recommendations == [content : RT_Strings, hashtags : RT_Hashtags, focus : RT_Strings]

\* JSON.stringify of an array of strings; of undefined it is undefined
RECURSIVE RT_stringifyItems(_)
RT_stringifyItems(tags) ==
    IF tags = << >> THEN << >>
    ELSE <<"\"", Head(tags), "\"">>
             \o (IF Len(tags) > 1 THEN <<",">> ELSE << >>)
             \o RT_stringifyItems(Tail(tags))
RT_stringify(h) ==
    IF ~h.has THEN [defined |-> FALSE, text |-> << >>]
    ELSE [defined |-> TRUE, text |-> <<"[">> \o RT_stringifyItems(h.tags) \o <<"]">>]
\* String(value), as encodeURIComponent applies it to its argument
RT_toString(v) == IF v.defined THEN v.text ELSE <<"undefined">>

\* encodeURIComponent: the characters that are not unreserved become percent
\* escapes
RT_escapeOf(c) ==
    CASE c = "\"" -> "%22"
      [] c = "%" -> "%25"
      [] c = "[" -> "%5B"
      [] c = "]" -> "%5D"
      [] c = "," -> "%2C"
      [] c = "#a" -> "%23a"
      [] c = "#b" -> "%23b"
      [] OTHER -> c
RT_encodeURIComponent(str) == [i \in 1..Len(str) |-> RT_escapeOf(str[i])]

\* decodeURIComponent: every percent escape back to its character
RT_charOf(e) ==
    CASE e = "%22" -> "\""
      [] e = "%25" -> "%"
      [] e = "%5B" -> "["
      [] e = "%5D" -> "]"
      [] e = "%2C" -> ","
      [] e = "%23a" -> "#a"
      [] e = "%23b" -> "#b"
      [] OTHER -> e
RT_decodeURIComponent(str) == [i \in 1..Len(str) |-> RT_charOf(str[i])]

\* the value of attr="..." as the HTML parser reads it: up to the first
\* double quote of the interpolated string
RECURSIVE RT_attributeValue(_)
RT_attributeValue(str) ==
    IF str = << >> \/ Head(str) = "\"" THEN << >>
    ELSE <<Head(str)>> \o RT_attributeValue(Tail(str))

\* JSON.parse of the text of an array of strings: the array, or a SyntaxError
RECURSIVE RT_parseItems(_, _)
RT_parseItems(text, acc) ==
    IF text = <<"]">> THEN [ok |-> TRUE, value |-> acc]
    ELSE IF Len(text) >= 4 /\ text[1] = "\"" /\ text[3] = "\""
              /\ text[2] \notin {"\"", "[", "]", ","}
         THEN IF text[4] = ","
              THEN IF Len(text) >= 6
                   THEN RT_parseItems(SubSeq(text, 5, Len(text)), Append(acc, text[2]))
                   ELSE [ok |-> FALSE, value |-> << >>]
              ELSE RT_parseItems(SubSeq(text, 4, Len(text)), Append(acc, text[2]))
    ELSE [ok |-> FALSE, value |-> << >>]
RT_parse(text) ==
    IF text # << >> /\ Head(text) = "["
    THEN RT_parseItems(Tail(text), << >>)
    ELSE [ok |-> FALSE, value |-> << >>]

RT_NoRec == [content |-> << >>, hashtags |-> RT_NoHashtags, focus |-> << >>]

\* lines 149-153: the three data attributes of the button
RT_displayResults(rec) ==
    [content |-> RT_attributeValue(RT_encodeURIComponent(rec.content)),
     hashtags |-> RT_attributeValue(
                      RT_encodeURIComponent(RT_toString(RT_stringify(rec.hashtags)))),
     focus |-> RT_attributeValue(rec.focus)]

\* lines 163-170: the base_content handed to createABTest, unless JSON.parse
\* throws
RT_handleCreateABTestClick(dataset) ==
    LET parsed == RT_parse(RT_decodeURIComponent(dataset.hashtags)) IN
    IF ~parsed.ok
    THEN [threw |-> TRUE, sent |-> FALSE, base |-> RT_NoRec]
    ELSE [threw |-> FALSE, sent |-> TRUE,
          base |-> [content |-> RT_decodeURIComponent(dataset.content),
                    hashtags |-> [has |-> TRUE, tags |-> parsed.value],
                    focus |-> dataset.focus]]

RT_NoCall == [clicked |-> FALSE, rec |-> RT_NoRec,
              out |-> [threw |-> FALSE, sent |-> FALSE, base |-> RT_NoRec]]
RtInit == rt_call = RT_NoCall

\* displayResults renders one recommendation and the user clicks its button
RT_RenderAndClick(rec) ==
    /\ ~rt_call.clicked
    /\ rt_call' = [clicked |-> TRUE, rec |-> rec,
                   out |-> RT_handleCreateABTestClick(RT_displayResults(rec))]
    /\ FrameRt

RtNext == \E rec \in RT_Recommendations : RT_RenderAndClick(rec)

\* C29: the click on the button of a rendered recommendation never throws and
\* sends a base_content with the content, hashtags and focus of that
\* recommendation
C29_RoundTripThroughDataAttributes ==
    rt_call.clicked =>
        /\ ~rt_call.out.threw
        /\ rt_call.out.sent
        /\ rt_call.out.base = rt_call.rec

(* ========================== specifications ============================ *)
\* the state of a script that a specification does not run
P0Idle == P0Init
FnIdle == fn_chain = << >> /\ fn_result = Pending
P1Idle == P1Init
CFIdle == /\ cf_form = CF_NoForm
          /\ cf_dom = << >>
          /\ cf_inflight = {}
          /\ cf_seq = 0
          /\ cf_clicks = 0
          /\ cf_refreshes = 0
          /\ cf_last = CF_Last("init", "none", NoBody)
PGIdle == /\ pg_ready = FALSE
          /\ pg_timers = {}
          /\ pg_bound = {}
          /\ pg_observing = FALSE
          /\ pg_hasCreate = FALSE
          /\ pg_threw = FALSE
          /\ pg_last = PG_Last("init", "none", 0, CF_NoForm, 0, NoBody)

\* no pure function has been applied, no notice shown
RsIdle == RsInit
RnIdle == RnInit
ExIdle == ExInit
NtIdle == NtInit
PureIdle == RsIdle /\ RnIdle /\ ExIdle
\* nothing copied, classified, rendered or requested by the other models
CyIdle == /\ cy_fn = "none"
          /\ cy_api = "present"
          /\ cy_label = CY_Original
          /\ cy_pending = 0
          /\ cy_timers = << >>
          /\ cy_clicks = 0
          /\ cy_last = CY_Last("init", FALSE, FALSE, FALSE)
ClIdle == ClInit
CnIdle == CnInit
GpIdle == /\ gp_page = {}
          /\ gp_disabled = {}
          /\ gp_inflight = [b \in GP_Buttons |-> 0]
          /\ gp_clicks = 0
          /\ gp_last = GP_Last("init", "none", FALSE)
RtIdle == RtInit
RestIdle == CyIdle /\ ClIdle /\ CnIdle /\ GpIdle /\ RtIdle

\* part_000 alone
Init == P0Init /\ FnIdle /\ P1Idle /\ CFIdle /\ PGIdle /\ PureIdle /\ NtIdle /\ RestIdle
Next == P0Next
Spec == Init /\ [][Next]_vars

\* findTestIdFromContext on every chain of at most MaxDepth elements
InitFind == FnInit /\ P0Idle /\ P1Idle /\ CFIdle /\ PGIdle /\ PureIdle /\ NtIdle /\ RestIdle
NextFind == FnNext
SpecFind == InitFind /\ [][NextFind]_vars

\* part_001: the permanent fix and the React fix on one page
InitReact == P1Init /\ P0Idle /\ FnIdle /\ CFIdle /\ PGIdle /\ PureIdle /\ NtIdle /\ RestIdle
NextReact == P1Next
SpecReact == InitReact /\ [][NextReact]_vars

\* the handlers of the comprehensive fix
InitCF == CFInit /\ P0Idle /\ FnIdle /\ P1Idle /\ PGIdle /\ PureIdle /\ NtIdle /\ RestIdle
NextCF == CFNext
SpecCF == InitCF /\ [][NextCF]_vars

\* the continuation of every request, on every response
InitResp == RsInit /\ P0Idle /\ FnIdle /\ P1Idle /\ CFIdle /\ PGIdle
                /\ RnIdle /\ ExIdle /\ NtIdle /\ RestIdle
NextResp == RsNext
SpecResp == InitResp /\ [][NextResp]_vars

\* every results renderer on every payload
InitRender == RnInit /\ P0Idle /\ FnIdle /\ P1Idle /\ CFIdle /\ PGIdle
                  /\ RsIdle /\ ExIdle /\ NtIdle /\ RestIdle
NextRender == RnNext
SpecRender == InitRender /\ [][NextRender]_vars

\* both form extractors on every document
InitExtract == ExInit /\ P0Idle /\ FnIdle /\ P1Idle /\ CFIdle /\ PGIdle
                   /\ RsIdle /\ RnIdle /\ NtIdle /\ RestIdle
NextExtract == ExNext
SpecExtract == InitExtract /\ [][NextExtract]_vars

\* the notices of showAlert and showNotification
InitNotice == NtInit /\ P0Idle /\ FnIdle /\ P1Idle /\ CFIdle /\ PGIdle /\ PureIdle /\ RestIdle
NextNotice == NtNext
SpecNotice == InitNotice /\ [][NextNotice]_vars

\* the comprehensive fix loaded into the page
InitPage == CFInit /\ PGInit /\ P0Idle /\ FnIdle /\ P1Idle /\ PureIdle /\ NtIdle /\ RestIdle
NextPage == PGNext
SpecPage == InitPage /\ [][NextPage]_vars

\* one copy button, clicked up to MaxCopyClicks times
InitCopy == CyInit /\ P0Idle /\ FnIdle /\ P1Idle /\ CFIdle /\ PGIdle /\ PureIdle /\ NtIdle
                /\ ClIdle /\ CnIdle /\ GpIdle /\ RtIdle
NextCopy == CyNext
SpecCopy == InitCopy /\ [][NextCopy]_vars

\* every click listener on every element
InitClassify == ClInit /\ P0Idle /\ FnIdle /\ P1Idle /\ CFIdle /\ PGIdle /\ PureIdle /\ NtIdle
                    /\ CyIdle /\ CnIdle /\ GpIdle /\ RtIdle
NextClassify == ClNext
SpecClassify == InitClassify /\ [][NextClassify]_vars

\* every results renderer on every variation content
InitContent == CnInit /\ P0Idle /\ FnIdle /\ P1Idle /\ CFIdle /\ PGIdle /\ PureIdle /\ NtIdle
                   /\ CyIdle /\ ClIdle /\ GpIdle /\ RtIdle
NextContent == CnNext
SpecContent == InitContent /\ [][NextContent]_vars

\* a page with one of the three fix scripts loaded: the script that takes the
\* first step is the one that runs; the create form of the comprehensive fix
\* stays as it was loaded
InitFixes == P0Init /\ P1Init /\ CFInit /\ FnIdle /\ PGIdle /\ PureIdle /\ NtIdle /\ RestIdle
NextFixes ==
    \/ P1Init /\ CFIdle /\ P0Next
    \/ P0Init /\ CFIdle /\ P1Next
    \/ P0Init /\ P1Init /\ CFNext /\ UNCHANGED cf_form
SpecFixes == InitFixes /\ [][NextFixes]_vars

\* ContentPlatform's two buttons on every page
InitPlatform == GpInit /\ P0Idle /\ FnIdle /\ P1Idle /\ CFIdle /\ PGIdle /\ PureIdle /\ NtIdle
                    /\ CyIdle /\ ClIdle /\ CnIdle /\ RtIdle
NextPlatform == GpNext
SpecPlatform == InitPlatform /\ [][NextPlatform]_vars

\* displayResults and handleCreateABTestClick on every recommendation
InitRound == RtInit /\ P0Idle /\ FnIdle /\ P1Idle /\ CFIdle /\ PGIdle /\ PureIdle /\ NtIdle
                 /\ CyIdle /\ ClIdle /\ CnIdle /\ GpIdle
NextRound == RtNext
SpecRound == InitRound /\ [][NextRound]_vars

=============================================================================
